---- MODULE Spec2Model ----
(***************************************************************************)
(* Model of the ServiceNow client session (src/src/servicenow-client.js):  *)
(* OAuth token acquisition, expiry tracking, the early-refresh check and   *)
(* the request transport with its error mapping.  Callers are asynchronous *)
(* JavaScript invocations on one shared client; an invocation runs without *)
(* interruption from one pending network call to the next, so every action *)
(* below is the code between two awaits on real I/O.                       *)
(* On top of the client the protocol server (src/src/index.js, and the     *)
(* resource templates of src/unnamed/part_005) routes tool calls to the    *)
(* handler groups of src/src/tools and resolves resource URIs.             *)
(***************************************************************************)
EXTENDS Integers, Sequences, FiniteSets, TLC

(* ---------------- bounds of the model ---------------- *)
MaxTicks == 2
MaxTokens == 2
MaxRows == 2       \* records a successful query returns, at most

(* Two invocations can be pending on the shared client at a time.         *)
Callers == {1, 2}

(* ---------------- program constants ---------------- *)
Null == 0                    \* this.accessToken = null / this.tokenExpiry = null
RefreshMargin == 300000      \* ms subtracted from tokenExpiry in ensureAuthenticated
DefaultExpiresIn == 3600     \* response.data.expires_in || 3600
MsPerSecond == 1000          \* expiresIn * 1000
SegmentsOfRecord == 2        \* pathParts.length !== 2
SysIdLength == 32            \* identifier.length === 32

(* Absent fields of a JSON body; "" and Absent are both falsy for ||.      *)
Absent == "<absent>"
Falsy(s) == s \in {Absent, ""}
OrElse(a, b) == IF Falsy(a) THEN b ELSE a

(* ---------------- inputs drawn by the environment ---------------- *)
TickSteps == {1000, 300000}

(* expires_in of a token response: not reported, or a number of seconds.   *)
AllExpiresInReports ==
  {[reported |-> FALSE, seconds |-> 0]} \cup
  {[reported |-> TRUE, seconds |-> s] : s \in {0, 60, 300, 1800}}

ExpiresInReports ==
  {[reported |-> FALSE, seconds |-> 0]} \cup
  {[reported |-> TRUE, seconds |-> s] : s \in {60, 300}}

(* An axios error object: error.response (status, statusText, body fields) *)
(* and error.request may each be there or not; error.message always is.    *)
AxiosError(hasResponse, hasRequest, status, statusText, desc, errMessage, errDetail, message) ==
  [hasResponse |-> hasResponse, hasRequest |-> hasRequest, status |-> status,
   statusText |-> statusText, error_description |-> desc,
   errMessage |-> errMessage, errDetail |-> errDetail, message |-> message]

(* HTTP error statuses with their status texts.                           *)
StatusText(status) ==
  CASE status = 400 -> "Bad Request"
    [] status = 401 -> "Unauthorized"
    [] status = 403 -> "Forbidden"
    [] status = 404 -> "Not Found"
    [] OTHER -> "Internal Server Error"

(* Errors the token POST can end with: an HTTP error status whose body may *)
(* carry error_description, no response at all, or a local failure.        *)
AllAuthErrors ==
  { AxiosError(TRUE, rq, st, StatusText(st), d, Absent, Absent, "Request failed with status code")
      : rq \in BOOLEAN, st \in {400, 401, 500}, d \in {Absent, "", "invalid_grant", "invalid_client"} }
  \cup { AxiosError(FALSE, TRUE, 0, Absent, Absent, Absent, Absent, m)
      : m \in {"timeout of 30000ms exceeded", "Network Error"} }
  \cup { AxiosError(FALSE, FALSE, 0, Absent, Absent, Absent, Absent, m)
      : m \in {"Invalid URL", "Cannot read properties of null"} }

AuthErrors ==
  { AxiosError(TRUE, TRUE, 400, StatusText(400), "invalid_grant", Absent, Absent,
               "Request failed with status code"),
    AxiosError(FALSE, TRUE, 0, Absent, Absent, Absent, Absent, "Network Error") }

(* response.data.access_token of a 2xx body that carries no usable token.  *)
NoTokenBodies == {Absent, ""}

(* Errors the business request can end with: an HTTP error status whose    *)
(* body may carry error.message and error.detail, no response, or a local  *)
(* failure.                                                                *)
AllRequestErrors ==
  { AxiosError(TRUE, rq, st, StatusText(st), Absent, m, d, "Request failed with status code")
      : rq \in BOOLEAN, st \in {401, 403, 404, 500},
        m \in {Absent, "", "No Record found"}, d \in {Absent, "", "Record doesn't exist"} }
  \cup { AxiosError(FALSE, TRUE, 0, Absent, Absent, Absent, Absent, m)
      : m \in {"timeout of 30000ms exceeded", "Network Error"} }
  \cup { AxiosError(FALSE, FALSE, 0, Absent, Absent, Absent, Absent, m)
      : m \in {"Invalid URL", "Converting circular structure to JSON"} }

RequestErrors ==
  { AxiosError(TRUE, TRUE, 401, StatusText(401), Absent, "User Not Authenticated",
               "Required to provide Auth information", "Request failed with status code"),
    AxiosError(FALSE, TRUE, 0, Absent, Absent, Absent, Absent, "Network Error") }

(* ---------------- state ---------------- *)
VARIABLES
  now,          \* Date.now(), in ms
  ticks,        \* number of clock advances so far
  accessToken,  \* this.accessToken (Null or the number of the token response)
  tokenExpiry,  \* this.tokenExpiry (Null or an instant in ms)
  authHeader,   \* httpClient.defaults.headers.common['Authorization'] (NoHeader or Bearer(token))
  nTok,         \* token responses the server has issued
  pc,           \* per caller: "idle", "authWait" (token POST pending), "reqWait" (business request pending)
  op,           \* per caller: the method of the client it invoked last
  tokReq,       \* per caller: token requests issued by the current invocation
  bizReq,       \* per caller: business requests issued by the current invocation
  outcome,      \* per caller: what the last finished invocation returned or threw
  cause,        \* per caller: the transport error behind the last thrown error
  lastWrite,    \* history: token, expiry and expires_in report of the last successful token response
  lastEns,      \* history: the ensureAuthenticated call that finished last, while no time has passed since
  refreshed,    \* history, per caller: a token response was stored since the caller's last invocation began
  request,      \* protocol server: the request in progress or answered last (kind, text)
  stage,        \* protocol server: where the handler of the request in progress waits
  handler,      \* protocol server: the tool handler the router invoked for the request
  lookups,      \* protocol server: the client calls the request's handler has started
  reply,        \* protocol server: the answer to the request (result or McpError)
  details,      \* protocol server: lanes and activities collected for a process definition
  toolArgs,     \* argument forwarding: the tool or client method invoked last, with its arguments
  requested,    \* argument forwarding: method, path, data and params handed to makeRequest
  store,        \* backing store: the records created so far, by sys_id
  response,     \* backing store: response.data of the last request
  env,          \* process: process.env, per required key "unset", "empty" or "set"
  phase,        \* process: "constructed", "authenticating", "listening" or "exited"
  serviceNowClient, \* process: this.serviceNowClient (NoClient or "created")
  fatal,        \* process: why and how the process exited (exit code, error text, keys named)
  failState     \* history: "none"; "failed": a makeRequest lost its authentication and no token response
                \* was stored since that call began; "refreshed": one was; back to "none" at the next makeRequest

session == <<accessToken, tokenExpiry, authHeader>>
clock == <<now, ticks>>
calls == <<pc, op, tokReq, bizReq, outcome, cause>>
history == <<lastWrite, lastEns, refreshed, failState>>
vars == <<now, ticks, accessToken, tokenExpiry, authHeader, nTok, pc, op,
          tokReq, bizReq, outcome, cause, lastWrite, lastEns, refreshed,
          failState, request, stage, handler, lookups, reply, details,
          toolArgs, requested, store, response,
          env, phase, serviceNowClient, fatal>>
server == <<request, stage, handler, lookups, reply, details>>
wire == <<toolArgs, requested, store, response>>
boot == <<env, phase, serviceNowClient, fatal>>

(* ---------------- thrown errors and results ---------------- *)
NoCause == AxiosError(FALSE, FALSE, 0, Absent, Absent, Absent, Absent, Absent)
Thrown(prefix, status, detail) == [prefix |-> prefix, status |-> status, detail |-> detail]
NoOutcome == Thrown("none", 0, "")
Returned == Thrown("returned", 0, "")

(* throw new Error('No access token received from ServiceNow')            *)
NoAccessTokenError ==
  AxiosError(FALSE, FALSE, 0, Absent, Absent, Absent, Absent,
             "No access token received from ServiceNow")

(* variant: error.request is looked at before error.response              *)
AuthenticateCatch_RequestFirst(error) ==
  IF error.hasRequest
    THEN Thrown("Authentication failed: No response from ServiceNow server", 0, "")
  ELSE IF error.hasResponse
    THEN Thrown("Authentication failed: ", error.status,
                OrElse(error.error_description, error.statusText))
  ELSE Thrown("Authentication failed: ", 0, error.message)

(* catch block of authenticate                                             *)
AuthenticateCatch(error) ==
  IF error.hasResponse
    THEN Thrown("Authentication failed: ", error.status,
                OrElse(error.error_description, error.statusText))
  ELSE IF error.hasRequest
    THEN Thrown("Authentication failed: No response from ServiceNow server", 0, "")
  ELSE Thrown("Authentication failed: ", 0, error.message)

(* variant: error.detail is not consulted                                  *)
MakeRequestCatch_NoDetail(error) ==
  IF error.hasResponse
    THEN Thrown("ServiceNow API error", error.status,
                OrElse(error.errMessage, error.statusText))
  ELSE IF error.hasRequest
    THEN Thrown("No response from ServiceNow server", 0, "")
  ELSE Thrown("Request failed: ", 0, error.message)

(* catch block of makeRequest                                              *)
MakeRequestCatch(error) ==
  IF error.hasResponse
    THEN Thrown("ServiceNow API error", error.status,
                OrElse(error.errMessage, OrElse(error.errDetail, error.statusText)))
  ELSE IF error.hasRequest
    THEN Thrown("No response from ServiceNow server", 0, "")
  ELSE Thrown("Request failed: ", 0, error.message)

(* ---------------- the session ---------------- *)
(* variant: the expiry is never looked at                                  *)
NeedsAuthentication_NoExpiryCheck ==
  \/ accessToken = Null
  \/ tokenExpiry = Null

(* variant: >= in place of >                                               *)
NeedsAuthentication_AtMargin ==
  \/ accessToken = Null
  \/ tokenExpiry = Null
  \/ now >= tokenExpiry - RefreshMargin

(* condition of ensureAuthenticated                                        *)
NeedsAuthentication ==
  \/ accessToken = Null
  \/ tokenExpiry = Null
  \/ now > tokenExpiry - RefreshMargin

(* const expiresIn = response.data.expires_in || 3600                      *)
ExpiresIn(report) ==
  IF report.reported /\ report.seconds # 0 THEN report.seconds ELSE DefaultExpiresIn

(* variant: no default for a response without expires_in                   *)
ExpiryOf_NoDefault(report) ==
  IF report.reported THEN now + report.seconds * MsPerSecond ELSE Null

(* Date.now() + (expiresIn * 1000)                                         *)
ExpiryOf(report) == now + ExpiresIn(report) * MsPerSecond

NoReport == [reported |-> FALSE, seconds |-> 0]
NoWrite == [tok |-> Null, exp |-> Null, report |-> NoReport]
NoEns == [fresh |-> FALSE, auths |-> 0, failed |-> FALSE]
EnsDone(auths, failed) == [fresh |-> TRUE, auths |-> auths, failed |-> failed]

(* ======================= text ======================= *)
(* Tool names and resource URIs are JavaScript strings.  A text is written *)
(* as a sequence of tokens, a token being a word of the table below or a   *)
(* single character, and is matched character by character.                *)
Spell ==
  "servicenow" :> <<"s", "e", "r", "v", "i", "c", "e", "n", "o", "w">> @@
  "incident" :> <<"i", "n", "c", "i", "d", "e", "n", "t">> @@
  "get" :> <<"g", "e", "t">> @@
  "create" :> <<"c", "r", "e", "a", "t", "e">> @@
  "update" :> <<"u", "p", "d", "a", "t", "e">> @@
  "list" :> <<"l", "i", "s", "t">> @@
  "script" :> <<"s", "c", "r", "i", "p", "t">> @@
  "include" :> <<"i", "n", "c", "l", "u", "d", "e">> @@
  "search" :> <<"s", "e", "a", "r", "c", "h">> @@
  "query" :> <<"q", "u", "e", "r", "y">> @@
  "table" :> <<"t", "a", "b", "l", "e">> @@
  "record" :> <<"r", "e", "c", "o", "r", "d">> @@
  "records" :> <<"r", "e", "c", "o", "r", "d", "s">> @@
  "schema" :> <<"s", "c", "h", "e", "m", "a">> @@
  "process" :> <<"p", "r", "o", "c", "e", "s", "s">> @@
  "definition" :> <<"d", "e", "f", "i", "n", "i", "t", "i", "o", "n">> @@
  "execute" :> <<"e", "x", "e", "c", "u", "t", "e">> @@
  "lanes" :> <<"l", "a", "n", "e", "s">> @@
  "lane" :> <<"l", "a", "n", "e">> @@
  "activities" :> <<"a", "c", "t", "i", "v", "i", "t", "i", "e", "s">> @@
  "activity" :> <<"a", "c", "t", "i", "v", "i", "t", "y">> @@
  "definitions" :> <<"d", "e", "f", "i", "n", "i", "t", "i", "o", "n",
      "s">> @@
  "delete" :> <<"d", "e", "l", "e", "t", "e">> @@
  "attachment" :> <<"a", "t", "t", "a", "c", "h", "m", "e", "n", "t">> @@
  "download" :> <<"d", "o", "w", "n", "l", "o", "a", "d">> @@
  "upload" :> <<"u", "p", "l", "o", "a", "d">> @@
  "unknown" :> <<"u", "n", "k", "n", "o", "w", "n">> @@
  "tool" :> <<"t", "o", "o", "l">> @@
  "close" :> <<"c", "l", "o", "s", "e">> @@
  "purge" :> <<"p", "u", "r", "g", "e">> @@
  "data" :> <<"d", "a", "t", "a">> @@
  "user" :> <<"u", "s", "e", "r">> @@
  "examples" :> <<"e", "x", "a", "m", "p", "l", "e", "s">> @@
  "critical" :> <<"c", "r", "i", "t", "i", "c", "a", "l">> @@
  "active" :> <<"a", "c", "t", "i", "v", "e">> @@
  "incidents" :> <<"i", "n", "c", "i", "d", "e", "n", "t", "s">> @@
  "sys" :> <<"s", "y", "s">> @@
  "1c741bd70b2322007518478d83673af3" :> <<"1", "c", "7", "4", "1", "b",
      "d", "7", "0", "b", "2", "3", "2", "2", "0", "0", "7", "5", "1", "8",
      "4", "7", "8", "d", "8", "3", "6", "7", "3", "a", "f", "3">> @@
  "1C741BD70B2322007518478D83673AF3" :> <<"1", "C", "7", "4", "1", "B",
      "D", "7", "0", "B", "2", "3", "2", "2", "0", "0", "7", "5", "1", "8",
      "4", "7", "8", "D", "8", "3", "6", "7", "3", "A", "F", "3">> @@
  "1c741bd70b2322007518478d83673af" :> <<"1", "c", "7", "4", "1", "b", "d",
      "7", "0", "b", "2", "3", "2", "2", "0", "0", "7", "5", "1", "8", "4",
      "7", "8", "d", "8", "3", "6", "7", "3", "a", "f">> @@
  "1c741bd70b2322007518478d83673af3a" :> <<"1", "c", "7", "4", "1", "b",
      "d", "7", "0", "b", "2", "3", "2", "2", "0", "0", "7", "5", "1", "8",
      "4", "7", "8", "d", "8", "3", "6", "7", "3", "a", "f", "3", "a">> @@
  "1c741bd70b2322007518478d83673afg" :> <<"1", "c", "7", "4", "1", "b",
      "d", "7", "0", "b", "2", "3", "2", "2", "0", "0", "7", "5", "1", "8",
      "4", "7", "8", "d", "8", "3", "6", "7", "3", "a", "f", "g">> @@
  "INC0010001" :> <<"I", "N", "C", "0", "0", "1", "0", "0", "0", "1">> @@
  "admin" :> <<"a", "d", "m", "i", "n">>

RECURSIVE Chars(_)
Chars(tokens) ==
  IF tokens = <<>> THEN <<>>
  ELSE (IF Head(tokens) \in DOMAIN Spell THEN Spell[Head(tokens)] ELSE <<Head(tokens)>>)
       \o Chars(Tail(tokens))

(* snake_case name made of the given words                                 *)
RECURSIVE Snake(_)
Snake(words) ==
  IF Len(words) <= 1 THEN words
  ELSE <<Head(words), "_">> \o Snake(Tail(words))

(* String.prototype.includes / startsWith / endsWith                       *)
Includes(s, t) == \E i \in 0..(Len(s) - Len(t)) : SubSeq(s, i + 1, i + Len(t)) = t
StartsWith(s, t) == Len(s) >= Len(t) /\ SubSeq(s, 1, Len(t)) = t
EndsWith(s, t) == Len(s) >= Len(t) /\ SubSeq(s, Len(s) - Len(t) + 1, Len(s)) = t

(* s.replace(t, ''): the first occurrence of t is removed                  *)
ReplaceFirst(s, t) ==
  IF Includes(s, t)
    THEN LET i == CHOOSE k \in 0..(Len(s) - Len(t)) :
                    /\ SubSeq(s, k + 1, k + Len(t)) = t
                    /\ \A j \in 0..(k - 1) : SubSeq(s, j + 1, j + Len(t)) # t
         IN SubSeq(s, 1, i) \o SubSeq(s, i + Len(t) + 1, Len(s))
    ELSE s

(* s.split(sep) for a one-character separator: '' splits into ['']        *)
RECURSIVE Split(_, _)
Split(s, sep) ==
  IF \A i \in 1..Len(s) : s[i] # sep THEN <<s>>
  ELSE LET i == CHOOSE k \in 1..Len(s) : s[k] = sep /\ \A j \in 1..(k - 1) : s[j] # sep
       IN <<SubSeq(s, 1, i - 1)>> \o Split(SubSeq(s, i + 1, Len(s)), sep)

(* ======================= tool catalogue ======================= *)
Tool(words) == Snake(<<"servicenow">> \o words)

(* the names each register*Tools function declares                         *)
registerIncidentTools ==
  { Tool(<<"incident", v>>) : v \in {"get", "create", "update", "list"} }
registerScriptIncludeTools ==
  { Tool(<<"script", "include", v>>) : v \in {"get", "create", "update", "list", "search"} }
registerTableTools ==
  { Tool(<<"query", "table">>), Tool(<<"get", "record">>), Tool(<<"create", "record">>),
    Tool(<<"update", "record">>), Tool(<<"table", "schema">>) }
registerProcessDefinitionTools ==
  { Tool(<<"process", "definition", v>>) :
      v \in {"get", "list", "search", "create", "update", "execute", "schema"} }
registerProcessLaneTools ==
  { Tool(<<"list", "process", "lanes">>), Tool(<<"search", "process", "lanes">>),
    Tool(<<"get", "process", "lane">>) }
registerAttachmentTools ==
  { Tool(<<"attachment", v>>) : v \in {"list", "get", "download", "upload", "delete"} }

(* the names the switch of handleProcessActivityTools knows                *)
ProcessActivityCases ==
  { Tool(<<"list", "process", "activities">>), Tool(<<"search", "process", "activities">>),
    Tool(<<"get", "process", "activity">>), Tool(<<"create", "process", "activity">>),
    Tool(<<"update", "process", "activity">>), Tool(<<"delete", "process", "activity">>),
    Tool(<<"get", "process", "activity", "schema">>),
    Tool(<<"list", "activity", "definitions">>) }

Handlers ==
  {"handleIncidentTools", "handleScriptIncludeTools", "handleTableTools",
   "handleProcessDefinitionTools", "handleProcessLaneTools",
   "handleProcessActivityTools", "handleAttachmentTools"}

(* registerProcessActivityTools(server) is called without a server: it     *)
(* throws on server.setRequestHandler and declares nothing.                *)
Registration ==
  [h \in Handlers |->
     CASE h = "handleIncidentTools" -> [fulfilled |-> TRUE, tools |-> registerIncidentTools]
       [] h = "handleScriptIncludeTools" -> [fulfilled |-> TRUE, tools |-> registerScriptIncludeTools]
       [] h = "handleTableTools" -> [fulfilled |-> TRUE, tools |-> registerTableTools]
       [] h = "handleProcessDefinitionTools" -> [fulfilled |-> TRUE, tools |-> registerProcessDefinitionTools]
       [] h = "handleProcessLaneTools" -> [fulfilled |-> TRUE, tools |-> registerProcessLaneTools]
       [] h = "handleProcessActivityTools" -> [fulfilled |-> FALSE, tools |-> {}]
       [] h = "handleAttachmentTools" -> [fulfilled |-> TRUE, tools |-> registerAttachmentTools]]

(* tools/list: the groups whose registration was fulfilled, flattened      *)
ListedTools == UNION { Registration[h].tools : h \in { g \in Handlers : Registration[g].fulfilled } }

(* the case labels of each handler's switch                                *)
SwitchCases(h) ==
  IF h = "handleProcessActivityTools" THEN ProcessActivityCases ELSE Registration[h].tools

(* names a client may send that no group declares                          *)
UndeclaredToolNames ==
  { Tool(<<"unknown", "tool">>), Tool(<<"get", "records">>), Tool(<<"delete", "record">>),
    Tool(<<"incident", "close">>), Tool(<<"process", "lane", "purge">>),
    Tool(<<"script", "include", "incident">>), Tool(<<"attachment", "record">>),
    Tool(<<"attachment", "purge">>), Tool(<<"process", "definition", "purge">>) }

ToolNames == ListedTools \cup ProcessActivityCases \cup UndeclaredToolNames

(* ======================= tool router ======================= *)
(* this.toolRouter: the needles of each match predicate, in array order    *)
toolRouter == <<
  [handler |-> "handleIncidentTools", includes |-> {<<"_", "incident">>}],
  [handler |-> "handleScriptIncludeTools", includes |-> {<<"script", "_", "include">>}],
  [handler |-> "handleTableTools",
   includes |-> {<<"query", "_", "table">>, <<"_", "record">>}],
  [handler |-> "handleProcessDefinitionTools", includes |-> {<<"process", "_", "definition">>}],
  [handler |-> "handleProcessLaneTools", includes |-> {<<"process", "_", "lane">>}],
  [handler |-> "handleProcessActivityTools",
   includes |-> {<<"process", "_", "activity">>, <<"activity", "_", "definition">>}],
  [handler |-> "handleAttachmentTools", includes |-> {<<"_", "attachment">>}] >>

(* r.match(name)                                                           *)
Match(i, name) == \E t \in toolRouter[i].includes : Includes(Chars(name), Chars(t))

NoRoute == "none"

(* variant: the last matching route is taken                               *)
Route_LastMatch(name) ==
  IF \E i \in DOMAIN toolRouter : Match(i, name)
    THEN toolRouter[CHOOSE i \in DOMAIN toolRouter :
                      Match(i, name) /\ \A j \in (i + 1)..Len(toolRouter) : ~Match(j, name)].handler
    ELSE NoRoute

(* variant: a name no route matches goes to the generic table handlers     *)
Route_DefaultsToTable(name) ==
  IF \E i \in DOMAIN toolRouter : Match(i, name)
    THEN toolRouter[CHOOSE i \in DOMAIN toolRouter :
                      Match(i, name) /\ \A j \in 1..(i - 1) : ~Match(j, name)].handler
    ELSE "handleTableTools"

(* this.toolRouter.find((r) => r.match(name)): the first match, if any     *)
Route(name) ==
  IF \E i \in DOMAIN toolRouter : Match(i, name)
    THEN toolRouter[CHOOSE i \in DOMAIN toolRouter :
                      Match(i, name) /\ \A j \in 1..(i - 1) : ~Match(j, name)].handler
    ELSE NoRoute

(* the client method a tool's handler calls (each handler calls one)       *)
Words(name) == { name[i] : i \in DOMAIN name }
ClientCall(name) ==
  CASE "create" \in Words(name) -> "createRecord"
    [] "update" \in Words(name) -> "updateRecord"
    [] Words(name) \cap {"get", "execute"} # {} -> "getRecord"
    [] OTHER -> "queryTable"

(* what the CallTool handler and the handler it selects decide from the    *)
(* name alone, for every name of the model                                 *)
Dispatch(name) ==
  [handler |-> Route(name),
   known |-> Route(name) # NoRoute /\ name \in SwitchCases(Route(name)),
   call |-> ClientCall(name)]
toolDispatch == [n \in ToolNames |-> Dispatch(n)]

(* ======================= resource templates ======================= *)
Scheme == <<"servicenow", ":", "/", "/">>
Uri(path) == Scheme \o path

(* variant: the table-data test looks at 'servicenow://table-' only        *)
resourceTemplates_SharedPrefix == <<
  [kind |-> "table-data", prefix |-> Uri(<<"table", "-">>)],
  [kind |-> "table-schema", prefix |-> Uri(<<"table", "-", "schema", "/">>)],
  [kind |-> "record", prefix |-> Uri(<<"record", "/">>)],
  [kind |-> "incident", prefix |-> Uri(<<"incident", "/">>)],
  [kind |-> "user", prefix |-> Uri(<<"user", "/">>)],
  [kind |-> "process-definition", prefix |-> Uri(<<"process", "-", "definition", "/">>)] >>

(* the six startsWith tests of the ReadResource handler, in code order     *)
resourceTemplates == <<
  [kind |-> "table-schema", prefix |-> Uri(<<"table", "-", "schema", "/">>)],
  [kind |-> "table-data", prefix |-> Uri(<<"table", "-", "data", "/">>)],
  [kind |-> "record", prefix |-> Uri(<<"record", "/">>)],
  [kind |-> "incident", prefix |-> Uri(<<"incident", "/">>)],
  [kind |-> "user", prefix |-> Uri(<<"user", "/">>)],
  [kind |-> "process-definition", prefix |-> Uri(<<"process", "-", "definition", "/">>)] >>

TemplateKinds == { resourceTemplates[i].kind : i \in DOMAIN resourceTemplates }
ExamplesUri == Uri(<<"examples">>)

(* uri.startsWith(prefix)                                                  *)
TemplateMatches(i, uri) == StartsWith(Chars(uri), Chars(resourceTemplates[i].prefix))

(* the template whose branch the handler enters: the first that matches    *)
NoTemplate == 0
TemplateOf(uri) ==
  IF \E i \in DOMAIN resourceTemplates : TemplateMatches(i, uri)
    THEN CHOOSE i \in DOMAIN resourceTemplates :
           TemplateMatches(i, uri) /\ \A j \in 1..(i - 1) : ~TemplateMatches(j, uri)
    ELSE NoTemplate

(* uri.replace(prefix, '')                                                 *)
Parameter(uri) == ReplaceFirst(Chars(uri), Chars(resourceTemplates[TemplateOf(uri)].prefix))

pathParts(uri) == Split(Parameter(uri), "/")

(* variant: only the table segment is required                             *)
BadRecordPath_TableOnly(uri) == pathParts(uri)[1] = <<>>

(* pathParts.length !== 2 || !pathParts[0] || !pathParts[1]                *)
BadRecordPath(uri) ==
  \/ Len(pathParts(uri)) # SegmentsOfRecord
  \/ pathParts(uri)[1] = <<>>
  \/ pathParts(uri)[2] = <<>>

(* [a-f0-9] under the i flag                                               *)
HexDigits ==
  {"0", "1", "2", "3", "4", "5", "6", "7", "8", "9",
   "a", "b", "c", "d", "e", "f", "A", "B", "C", "D", "E", "F"}

(* variant: only lower-case hexadecimal digits are accepted                 *)
LooksLikeSysId_LowerCaseOnly(identifier) ==
  /\ Len(identifier) = SysIdLength
  /\ \A i \in 1..Len(identifier) :
       identifier[i] \in HexDigits \ {"A", "B", "C", "D", "E", "F"}

(* identifier.length === 32 && /^[a-f0-9]{32}$/i.test(identifier)          *)
LooksLikeSysId(identifier) ==
  /\ Len(identifier) = SysIdLength
  /\ \A i \in 1..Len(identifier) : identifier[i] \in HexDigits

(* identifiers a client may put in an incident or user URI                 *)
SysId == "1c741bd70b2322007518478d83673af3"
Identifiers ==
  { SysId, "1C741BD70B2322007518478D83673AF3", "1c741bd70b2322007518478d83673af",
    "1c741bd70b2322007518478d83673af3a", "1c741bd70b2322007518478d83673afg",
    "INC0010001", "admin" }

ResourceUris ==
  { ExamplesUri, Uri(<<"unknown", "/", "incident">>), Uri(<<"table", "-", "schema">>),
    Uri(<<"attachment", "/", SysId>>), <<"incident", "/", "INC0010001">>,
    Uri(<<"table", "-", "schema", "/">>), Uri(<<"table", "-", "schema", "/", "incident">>),
    Uri(<<"table", "-", "data", "/">>), Uri(<<"table", "-", "data", "/", "incident">>),
    Uri(<<"record", "/">>), Uri(<<"record", "/", "incident">>),
    Uri(<<"record", "/", "incident", "/">>), Uri(<<"record", "/", "/", SysId>>),
    Uri(<<"record", "/", "incident", "/", SysId>>),
    Uri(<<"record", "/", "incident", "/", SysId, "/", "data">>),
    Uri(<<"incident", "/">>), Uri(<<"user", "/">>),
    Uri(<<"process", "-", "definition", "/">>),
    Uri(<<"process", "-", "definition", "/", SysId>>) }
  \cup { Uri(<<"incident", "/", id>>) : id \in Identifiers }
  \cup { Uri(<<"user", "/", id>>) : id \in Identifiers }

(* ======================= protocol server ======================= *)
(* One protocol request is in progress at a time; it uses the shared       *)
(* client as caller 1.                                                     *)
McpError(code, wraps, base, lists) ==
  [kind |-> "McpError", code |-> code, wraps |-> wraps, base |-> base,
   lists |-> lists, flagged |-> FALSE, lookup_method |-> "", about |-> <<>>]
Result(wraps, base, flagged, method) ==
  [kind |-> "result", code |-> "", wraps |-> wraps, base |-> base,
   lists |-> {}, flagged |-> flagged, lookup_method |-> method, about |-> <<>>]
NoReply == [kind |-> "none", code |-> "", wraps |-> <<>>, base |-> NoOutcome,
            lists |-> {}, flagged |-> FALSE, lookup_method |-> "", about |-> <<>>]
(* the tool name or URI a message quotes                                   *)
About(r, text) == [r EXCEPT !.about = text]
Plain(message) == Thrown(message, 0, "")
NoRequest == [kind |-> "none", text |-> <<>>]
(* lanes: lanes.length; lane: lanes the loop has started on; activities:   *)
(* activities.length; answers: how each client call of the resolution      *)
(* ended, in the order of the calls; record: the active and status fields  *)
(* of the record servicenow_process_definition_execute has read            *)
NoRecord == [active |-> "", status |-> ""]
NoDetails == [lanes |-> 0, lane |-> 0, activities |-> 0, answers |-> <<>>,
              record |-> NoRecord]
Answer(ok, rows) == [ok |-> ok, rows |-> IF ok THEN rows ELSE 0]
Lookup(call, table, by) == [call |-> call, table |-> table, by |-> by]

ServerInit ==
  /\ request = NoRequest
  /\ stage = "idle"
  /\ handler = NoRoute
  /\ lookups = <<>>
  /\ reply = NoReply
  /\ details = NoDetails

ClientIdle == UNCHANGED <<clock, session, nTok, calls, history>>
CanAccept == stage = "idle" /\ pc[1] = "idle"

(* ======================= client actions ======================= *)
(* ---------------- arguments, request configurations, backing store ------ *)
(* a numeric argument or parameter that may be left out                    *)
NotGiven == [given |-> FALSE, n |-> 0]
Given(n) == [given |-> TRUE, n |-> n]
DefaultLimit == 100
DefaultOffset == 0
(* a default value in a destructuring pattern or a parameter list          *)
Default(a, d) == IF a.given THEN a.n ELSE d
Truthy(s) == ~Falsy(s)

MaxRecords == 2
Tables == {"incident", "sys_user"}
Fields == {"name", "state"}
FieldValues == {"a", "b"}
(* a data mapping: per field its value, or Absent for a field left out     *)
DataMappings == [Fields -> FieldValues \cup {Absent}]
NoFields == [f \in Fields |-> Absent]
NoData == [given |-> FALSE, fields |-> NoFields]
Data(d) == [given |-> TRUE, fields |-> d]

NoParams == [given |-> FALSE, sysparm_limit |-> NotGiven, sysparm_offset |-> NotGiven,
             sysparm_query |-> Absent, sysparm_fields |-> Absent, sysparm_orderby |-> Absent]
(* const config = { method, url: path, ...(data && { data }),               *)
(*                  ...(params && { params }) }                             *)
Config(method, table, sysId, data, params) ==
  [method |-> method, table |-> table, sysId |-> sysId, data |-> data, params |-> params]
NoConfig == Config("none", "", Null, NoData, NoParams)

getRecord(table, sysId, fields) ==
  Config("GET", table, sysId, NoData,
         [NoParams EXCEPT !.given = TRUE,
                          !.sysparm_fields = IF Truthy(fields) THEN fields ELSE Absent])
queryTable(table, query, fields, limit, offset, orderBy) ==
  Config("GET", table, Null, NoData,
         [given |-> TRUE,
          sysparm_limit |-> Given(Default(limit, DefaultLimit)),
          sysparm_offset |-> Given(Default(offset, DefaultOffset)),
          sysparm_query |-> IF Truthy(query) THEN query ELSE Absent,
          sysparm_fields |-> IF Truthy(fields) THEN fields ELSE Absent,
          sysparm_orderby |-> IF Truthy(orderBy) THEN orderBy ELSE Absent])
(* variant: the record is created without a request body                   *)
createRecord_WithoutBody(table, data) == Config("POST", table, Null, NoData, NoParams)
createRecord(table, data) == Config("POST", table, Null, Data(data), NoParams)
(* queryIncidents(query, fields, limit, offset) has four parameters         *)
queryIncidents(query, fields, limit, offset) ==
  queryTable("incident", query, fields, limit, offset, Absent)

(* the arguments of a tool call or of a client method                      *)
NoArgs == [op |-> "none", table |-> "", sysId |-> Null, data |-> NoFields,
           query |-> Absent, fields |-> Absent, limit |-> NotGiven,
           offset |-> NotGiven, order_by |-> Absent]
Limits == {NotGiven, Given(-1), Given(0), Given(1), Given(DefaultLimit)}
Offsets == {NotGiven, Given(0), Given(1)}
ListArguments ==
  { [NoArgs EXCEPT !.query = q, !.fields = f, !.limit = l, !.offset = o, !.order_by = ob] :
      q \in {Absent, "active=true"}, f \in {Absent, "name"},
      l \in Limits, o \in Offsets, ob \in {Absent, "state"} }
(* handleListIncidents: const { query, fields, limit = 100, offset = 0,     *)
(* order_by } = args; queryIncidents is called with order_by as a fifth     *)
(* argument, for which it has no parameter                                  *)
handleListIncidents(args) ==
  queryIncidents(args.query, args.fields, Given(Default(args.limit, DefaultLimit)),
                 Given(Default(args.offset, DefaultOffset)))
handleQueryTable(args) ==
  queryTable(args.table, args.query, args.fields, Given(Default(args.limit, DefaultLimit)),
             Given(Default(args.offset, DefaultOffset)), args.order_by)

(* the backing store: records by sys_id (1, 2, ...), each with its table    *)
(* and the fields it was created with, which it gives back unchanged       *)
NoResponse == [kind |-> "none", sysId |-> Null, fields |-> NoFields]
Record(sysId, fields) == [kind |-> "record", sysId |-> sysId, fields |-> fields]
NotFound == [kind |-> "error", sysId |-> Null, fields |-> NoFields]
List == [kind |-> "list", sysId |-> Null, fields |-> NoFields]
(* sysparm_fields restricts the fields of the record in the response       *)
Selected(fields, params) ==
  IF params.sysparm_fields = Absent THEN fields
  ELSE [f \in Fields |-> IF f = params.sysparm_fields THEN fields[f] ELSE Absent]
Serve(config) ==
  IF config.method = "POST"
    THEN Record(Len(store) + 1, config.data.fields)
  ELSE IF config.sysId = Null THEN List
  ELSE IF config.sysId \in 1..Len(store) /\ store[config.sysId].table = config.table
    THEN Record(config.sysId, Selected(store[config.sysId].fields, config.params))
  ELSE NotFound

WireInit ==
  /\ toolArgs = NoArgs
  /\ requested = NoConfig
  /\ store = <<>>
  /\ response = NoResponse

(* ---------------- the process ---------------- *)
required == << "SERVICENOW_INSTANCE_URL", "SERVICENOW_CLIENT_ID", "SERVICENOW_CLIENT_SECRET",
               "SERVICENOW_USERNAME", "SERVICENOW_PASSWORD" >>
Keys == { required[i] : i \in 1..Len(required) }
(* process.env[k]: not set, set to the empty string, or set to a value     *)
EnvValues == {Absent, "", "value"}
Envs == [Keys -> EnvValues]
(* required.filter((k) => !process.env[k]), in the order of `required`     *)
RECURSIVE filter(_, _)
filter(keys, e) ==
  IF keys = <<>> THEN <<>>
  ELSE IF Falsy(e[Head(keys)]) THEN <<Head(keys)>> \o filter(Tail(keys), e)
  ELSE filter(Tail(keys), e)
(* variant: only keys that are not set at all count as missing            *)
RECURSIVE filter_UnsetOnly(_, _)
filter_UnsetOnly(keys, e) ==
  IF keys = <<>> THEN <<>>
  ELSE IF e[Head(keys)] = Absent THEN <<Head(keys)>> \o filter_UnsetOnly(Tail(keys), e)
  ELSE filter_UnsetOnly(Tail(keys), e)
missing_UnsetOnly(e) == filter_UnsetOnly(required, e)
missing(e) == filter(required, e)
(* this.serviceNowClient = null                                           *)
NoClient == "null"
(* process.exit(code) after console.error of an error, or on SIGINT        *)
NoFatal == [code |-> -1, about |-> "none", names |-> <<>>]
Fatal(about, names) == [code |-> 1, about |-> about, names |-> names]
Interrupted == [code |-> 0, about |-> "SIGINT", names |-> <<>>]
(* the process once main() has connected the transport                    *)
Connected ==
  /\ env = [k \in Keys |-> "value"]
  /\ phase = "listening"
  /\ serviceNowClient = "created"
  /\ fatal = NoFatal

(* no default Authorization header is set                                  *)
NoHeader == <<>>

SessionInit ==
  /\ now = 1000
  /\ ticks = 0
  /\ accessToken = Null
  /\ tokenExpiry = Null
  /\ authHeader = NoHeader
  /\ nTok = 0
  /\ pc = [p \in Callers |-> "idle"]
  /\ op = [p \in Callers |-> "none"]
  /\ tokReq = [p \in Callers |-> 0]
  /\ bizReq = [p \in Callers |-> 0]
  /\ outcome = [p \in Callers |-> NoOutcome]
  /\ cause = [p \in Callers |-> NoCause]
  /\ lastWrite = NoWrite
  /\ lastEns = NoEns
  /\ refreshed = [p \in Callers |-> FALSE]
  /\ failState = "none"

Init ==
  /\ SessionInit
  /\ ServerInit
  /\ WireInit
  /\ Connected

(* Time passes between events of the event loop.                           *)
Tick(d) ==
  /\ ticks < MaxTicks
  /\ now' = now + d
  /\ ticks' = ticks + 1
  /\ lastEns' = NoEns
  /\ UNCHANGED <<session, nTok, calls, lastWrite, refreshed, failState>>

(* makeRequest up to its first pending network call: ensureAuthenticated   *)
(* either starts the token POST or returns, and then the business request  *)
(* is handed to the HTTP client.                                           *)
MakeRequest(p) ==
  /\ pc[p] = "idle"
  /\ op' = [op EXCEPT ![p] = "makeRequest"]
  /\ outcome' = [outcome EXCEPT ![p] = NoOutcome]
  /\ cause' = [cause EXCEPT ![p] = NoCause]
  /\ refreshed' = [refreshed EXCEPT ![p] = FALSE]
  /\ IF NeedsAuthentication
       THEN /\ pc' = [pc EXCEPT ![p] = "authWait"]
            /\ tokReq' = [tokReq EXCEPT ![p] = 1]
            /\ bizReq' = [bizReq EXCEPT ![p] = 0]
            /\ UNCHANGED lastEns
       ELSE /\ pc' = [pc EXCEPT ![p] = "reqWait"]
            /\ tokReq' = [tokReq EXCEPT ![p] = 0]
            /\ bizReq' = [bizReq EXCEPT ![p] = 1]
            /\ lastEns' = EnsDone(0, FALSE)
  /\ failState' = "none"
  /\ UNCHANGED <<clock, session, nTok, lastWrite>>

(* ensureAuthenticated called on its own.                                  *)
EnsureAuthenticated(p) ==
  /\ pc[p] = "idle"
  /\ op' = [op EXCEPT ![p] = "ensureAuthenticated"]
  /\ cause' = [cause EXCEPT ![p] = NoCause]
  /\ refreshed' = [refreshed EXCEPT ![p] = FALSE]
  /\ bizReq' = [bizReq EXCEPT ![p] = 0]
  /\ IF NeedsAuthentication
       THEN /\ pc' = [pc EXCEPT ![p] = "authWait"]
            /\ tokReq' = [tokReq EXCEPT ![p] = 1]
            /\ outcome' = [outcome EXCEPT ![p] = NoOutcome]
            /\ UNCHANGED lastEns
       ELSE /\ pc' = pc
            /\ tokReq' = [tokReq EXCEPT ![p] = 0]
            /\ outcome' = [outcome EXCEPT ![p] = Returned]
            /\ lastEns' = EnsDone(0, FALSE)
  /\ UNCHANGED <<clock, session, nTok, lastWrite, failState>>

(* authenticate called on its own (server start-up, tools that log in      *)
(* again): the token POST is issued whatever the session holds.            *)
Authenticate(p) ==
  /\ pc[p] = "idle"
  /\ op' = [op EXCEPT ![p] = "authenticate"]
  /\ pc' = [pc EXCEPT ![p] = "authWait"]
  /\ tokReq' = [tokReq EXCEPT ![p] = 1]
  /\ bizReq' = [bizReq EXCEPT ![p] = 0]
  /\ outcome' = [outcome EXCEPT ![p] = NoOutcome]
  /\ cause' = [cause EXCEPT ![p] = NoCause]
  /\ refreshed' = [refreshed EXCEPT ![p] = FALSE]
  /\ UNCHANGED <<clock, session, nTok, lastWrite, lastEns, failState>>

(* What the caller of authenticate does next once authenticate returned:   *)
(* makeRequest hands its business request to the HTTP client, the other    *)
(* two methods return.                                                     *)
AfterAuthenticate(p) ==
  IF op[p] = "makeRequest"
    THEN /\ pc' = [pc EXCEPT ![p] = "reqWait"]
         /\ bizReq' = [bizReq EXCEPT ![p] = bizReq[p] + 1]
         /\ UNCHANGED outcome
    ELSE /\ pc' = [pc EXCEPT ![p] = "idle"]
         /\ outcome' = [outcome EXCEPT ![p] = Returned]
         /\ UNCHANGED bizReq

(* `Bearer ${this.accessToken}`                                            *)
Bearer(token) == <<"Bearer ", token>>

(* variant: the default Authorization header is set by the first token     *)
(* response only                                                           *)
AuthSuccess_StaleHeader(p, report) ==
  /\ pc[p] = "authWait"
  /\ nTok < MaxTokens
  /\ nTok' = nTok + 1
  /\ accessToken' = nTok + 1
  /\ tokenExpiry' = ExpiryOf(report)
  /\ authHeader' = IF authHeader = NoHeader THEN Bearer(accessToken') ELSE authHeader
  /\ AfterAuthenticate(p)
  /\ lastWrite' = [tok |-> nTok + 1, exp |-> ExpiryOf(report), report |-> report]
  /\ lastEns' = IF op[p] = "authenticate" THEN lastEns ELSE EnsDone(1, FALSE)
  /\ refreshed' = [q \in Callers |-> TRUE]
  /\ failState' = IF failState = "failed" THEN "refreshed" ELSE failState
  /\ UNCHANGED <<clock, op, tokReq, cause>>

(* variant: an expiry later than the new one is kept                       *)
AuthSuccess_KeepLaterExpiry(p, report) ==
  /\ pc[p] = "authWait"
  /\ nTok < MaxTokens
  /\ nTok' = nTok + 1
  /\ accessToken' = nTok + 1
  /\ tokenExpiry' = IF tokenExpiry # Null /\ tokenExpiry > ExpiryOf(report)
                      THEN tokenExpiry ELSE ExpiryOf(report)
  /\ authHeader' = Bearer(accessToken')
  /\ AfterAuthenticate(p)
  /\ lastWrite' = [tok |-> nTok + 1, exp |-> ExpiryOf(report), report |-> report]
  /\ lastEns' = IF op[p] = "authenticate" THEN lastEns ELSE EnsDone(1, FALSE)
  /\ refreshed' = [q \in Callers |-> TRUE]
  /\ failState' = IF failState = "failed" THEN "refreshed" ELSE failState
  /\ UNCHANGED <<clock, op, tokReq, cause>>

(* The token POST answers 2xx with a non-empty access_token: the token,    *)
(* its expiry and the default Authorization header are stored together.    *)
AuthSuccess(p, report) ==
  /\ pc[p] = "authWait"
  /\ nTok < MaxTokens
  /\ nTok' = nTok + 1
  /\ accessToken' = nTok + 1
  /\ tokenExpiry' = ExpiryOf(report)
  /\ authHeader' = Bearer(accessToken')
  /\ AfterAuthenticate(p)
  /\ lastWrite' = [tok |-> nTok + 1, exp |-> ExpiryOf(report), report |-> report]
  /\ lastEns' = IF op[p] = "authenticate" THEN lastEns ELSE EnsDone(1, FALSE)
  /\ refreshed' = [q \in Callers |-> TRUE]
  /\ failState' = IF failState = "failed" THEN "refreshed" ELSE failState
  /\ UNCHANGED <<clock, op, tokReq, cause>>

(* variant: a failed authenticate drops the token it held                  *)
AuthThrows_ClearsSession(p, error) ==
  /\ pc[p] = "authWait"
  /\ pc' = [pc EXCEPT ![p] = "idle"]
  /\ outcome' = [outcome EXCEPT ![p] = AuthenticateCatch(error)]
  /\ cause' = [cause EXCEPT ![p] = error]
  /\ accessToken' = Null
  /\ tokenExpiry' = Null
  /\ authHeader' = NoHeader
  /\ lastEns' = IF op[p] = "authenticate" THEN lastEns ELSE EnsDone(1, TRUE)
  /\ failState' = IF op[p] # "makeRequest" THEN failState
                  ELSE IF failState = "failed" \/ ~refreshed[p] THEN "failed"
                  ELSE "refreshed"
  /\ UNCHANGED <<clock, nTok, op, tokReq, bizReq, lastWrite, refreshed>>

(* authenticate throws: the error reaches the caller of the method that    *)
(* called it; ensureAuthenticated and makeRequest do not catch it.         *)
AuthThrows(p, error) ==
  /\ pc[p] = "authWait"
  /\ pc' = [pc EXCEPT ![p] = "idle"]
  /\ outcome' = [outcome EXCEPT ![p] = AuthenticateCatch(error)]
  /\ cause' = [cause EXCEPT ![p] = error]
  /\ lastEns' = IF op[p] = "authenticate" THEN lastEns ELSE EnsDone(1, TRUE)
  /\ failState' = IF op[p] # "makeRequest" THEN failState
                  ELSE IF failState = "failed" \/ ~refreshed[p] THEN "failed"
                  ELSE "refreshed"
  /\ UNCHANGED <<clock, session, nTok, op, tokReq, bizReq, lastWrite, refreshed>>

(* The token POST fails (HTTP error status, no response, local failure).   *)
AuthFail(p, error) == AuthThrows(p, error)

(* The token POST answers 2xx but the body has no usable access_token.     *)
AuthNoToken(p, body) ==
  /\ Falsy(body)
  /\ AuthThrows(p, NoAccessTokenError)

(* The business request answers 2xx: makeRequest returns response.data.    *)
RequestSuccess(p) ==
  /\ pc[p] = "reqWait"
  /\ pc' = [pc EXCEPT ![p] = "idle"]
  /\ outcome' = [outcome EXCEPT ![p] = Returned]
  /\ UNCHANGED <<clock, session, nTok, op, tokReq, bizReq, cause, history>>

(* variant: a 401 for the business request makes the call log in again     *)
RequestFail_RetryOn401(p, error) ==
  /\ pc[p] = "reqWait"
  /\ IF error.hasResponse /\ error.status = 401 /\ tokReq[p] < 2
       THEN /\ pc' = [pc EXCEPT ![p] = "authWait"]
            /\ tokReq' = [tokReq EXCEPT ![p] = tokReq[p] + 1]
            /\ UNCHANGED <<outcome, cause>>
       ELSE /\ pc' = [pc EXCEPT ![p] = "idle"]
            /\ outcome' = [outcome EXCEPT ![p] = MakeRequestCatch(error)]
            /\ cause' = [cause EXCEPT ![p] = error]
            /\ UNCHANGED tokReq
  /\ UNCHANGED <<clock, session, nTok, op, bizReq, history>>

(* variant: a 401 for the business request drops the stored token          *)
RequestFail_DropsTokenOn401(p, error) ==
  /\ pc[p] = "reqWait"
  /\ pc' = [pc EXCEPT ![p] = "idle"]
  /\ outcome' = [outcome EXCEPT ![p] = MakeRequestCatch(error)]
  /\ cause' = [cause EXCEPT ![p] = error]
  /\ accessToken' = IF error.hasResponse /\ error.status = 401 THEN Null ELSE accessToken
  /\ tokenExpiry' = IF error.hasResponse /\ error.status = 401 THEN Null ELSE tokenExpiry
  /\ UNCHANGED <<clock, authHeader, nTok, op, tokReq, bizReq, history>>

(* The business request fails: makeRequest throws the mapped error.        *)
RequestFail(p, error) ==
  /\ pc[p] = "reqWait"
  /\ pc' = [pc EXCEPT ![p] = "idle"]
  /\ outcome' = [outcome EXCEPT ![p] = MakeRequestCatch(error)]
  /\ cause' = [cause EXCEPT ![p] = error]
  /\ UNCHANGED <<clock, session, nTok, op, tokReq, bizReq, history>>

(* ======================= protocol server actions ======================= *)
(* variant: the router answers a raising handler with an error result      *)
ToolExecutionFailed_AsResult(name, wraps, base) ==
  About(Result(<<"Tool execution failed">> \o wraps, base, TRUE, ""), name)

(* the router's catch: McpError(InternalError, `Tool execution failed:     *)
(* ${name}: ${err.message}`)                                               *)
ToolExecutionFailed(name, wraps, base) ==
  About(McpError("InternalError", <<"Tool execution failed">> \o wraps, base, {}), name)

(* what a handler does with a name its switch has no case for              *)
UnknownToolReply(h, name) ==
  IF h = "handleProcessLaneTools"
    THEN Result(<<"Error">>, Plain("Unknown tool"), FALSE, "")
    ELSE ToolExecutionFailed(name, <<>>, Plain(
           CASE h = "handleIncidentTools" -> "Unknown incident tool"
             [] h = "handleScriptIncludeTools" -> "Unknown script include tool"
             [] h = "handleTableTools" -> "Unknown table tool"
             [] h = "handleProcessDefinitionTools" -> "Unknown process definition tool"
             [] OTHER -> "Unknown attachment tool"))

(* the attachment functions call client.request, which the client does not *)
(* have: the TypeError is caught and thrown again with the function's text *)
AttachmentReply(name) ==
  ToolExecutionFailed(name,
    <<CASE "list" \in Words(name) -> "Failed to list attachments"
        [] "get" \in Words(name) -> "Failed to get attachment"
        [] "download" \in Words(name) -> "Failed to download attachment"
        [] "upload" \in Words(name) -> "Failed to upload attachment"
        [] OTHER -> "Failed to delete attachment">>,
    Plain("client.request is not a function"))

(* CallToolRequestSchema handler up to the first pending network call      *)
CallTool(name) ==
  /\ CanAccept
  /\ request' = [kind |-> "tool", text |-> name]
  /\ details' = NoDetails
  /\ LET h == toolDispatch[name].handler IN
       /\ handler' = h
       /\ IF h = NoRoute
            THEN /\ reply' = About(McpError("MethodNotFound", <<"Unknown tool">>, NoOutcome, {}), name)
                 /\ stage' = "idle"
                 /\ lookups' = <<>>
                 /\ ClientIdle
          ELSE IF h = "handleProcessActivityTools"
            THEN /\ reply' = NoReply
                 /\ stage' = "privateAuth"
                 /\ lookups' = <<>>
                 /\ ClientIdle
          ELSE IF ~toolDispatch[name].known
            THEN /\ reply' = UnknownToolReply(h, name)
                 /\ stage' = "idle"
                 /\ lookups' = <<>>
                 /\ ClientIdle
          ELSE IF h = "handleAttachmentTools"
            THEN /\ reply' = AttachmentReply(name)
                 /\ stage' = "idle"
                 /\ lookups' = <<>>
                 /\ ClientIdle
          ELSE /\ reply' = NoReply
               /\ stage' = "tool"
               /\ lookups' = <<Lookup(toolDispatch[name].call, "", "")>>
               /\ MakeRequest(1)

(* handleProcessActivityTools logs in with a client of its own; the router *)
(* passed it the shared client as `request`, so request.params is          *)
(* undefined and destructuring it throws.                                  *)
ProcessActivityAuthenticated ==
  /\ stage = "privateAuth"
  /\ stage' = "idle"
  /\ reply' = ToolExecutionFailed(request.text, <<>>, Plain("Cannot destructure property 'name'"))
  /\ UNCHANGED <<request, handler, lookups, details>>
  /\ ClientIdle

ProcessActivityAuthThrows(error) ==
  /\ stage = "privateAuth"
  /\ stage' = "idle"
  /\ reply' = ToolExecutionFailed(request.text, <<>>, AuthenticateCatch(error))
  /\ UNCHANGED <<request, handler, lookups, details>>
  /\ ClientIdle

(* the McpError each template throws for a missing parameter names its own *)
(* format only                                                             *)
MissingParameter(kind) ==
  McpError("InvalidRequest",
           <<CASE kind = "record" -> "URI format should be"
               [] kind \in {"table-schema", "table-data"} -> "Table name is required in URI"
               [] kind = "incident" -> "Incident number or sys_id is required in URI"
               [] kind = "user" -> "Username or sys_id is required in URI"
               [] OTHER -> "Process definition sys_id is required in URI">>,
           NoOutcome, {kind})

(* the final throw of the handler: the six templates and the examples URI  *)
UnknownResource(uri) ==
  About(McpError("InvalidRequest", <<"Unknown resource">>, NoOutcome, TemplateKinds \cup {"examples"}),
        uri)

(* the lookup the helper of a template starts with                         *)
FirstLookup(kind, uri) ==
  CASE kind = "table-schema" -> Lookup("queryTable", "sys_dictionary", "name")
    [] kind = "table-data" -> Lookup("queryTable", "{table}", "")
    [] kind = "record" -> Lookup("getRecord", "{table}", "sys_id")
    [] kind = "incident" ->
         IF LooksLikeSysId(Parameter(uri)) THEN Lookup("getRecord", "incident", "sys_id")
         ELSE Lookup("queryTable", "incident", "number")
    [] kind = "user" ->
         IF LooksLikeSysId(Parameter(uri)) THEN Lookup("getRecord", "sys_user", "sys_id")
         ELSE Lookup("queryTable", "sys_user", "user_name^ORemail")
    [] OTHER -> Lookup("getRecord", "sys_pd_process_definition", "sys_id")

(* what the ReadResource handler decides from the URI alone, for every    *)
(* URI of the model                                                        *)
Resolution(uri) ==
  LET i == TemplateOf(uri)
      kind == IF i = NoTemplate THEN "" ELSE resourceTemplates[i].kind
  IN [examples |-> Chars(uri) = Chars(ExamplesUri),
      template |-> i,
      kind |-> kind,
      rejected |-> IF i = NoTemplate THEN FALSE
                   ELSE IF kind = "record" THEN BadRecordPath(uri)
                   ELSE Parameter(uri) = <<>>,
      lookup |-> IF i = NoTemplate THEN Lookup("", "", "") ELSE FirstLookup(kind, uri)]
resourceResolution == [u \in ResourceUris |-> Resolution(u)]

(* ReadResourceRequestSchema handler up to the first pending network call  *)
ReadResource(uri) ==
  /\ CanAccept
  /\ request' = [kind |-> "resource", text |-> uri]
  /\ handler' = NoRoute
  /\ details' = NoDetails
  /\ LET i == resourceResolution[uri].template
         kind == resourceResolution[uri].kind
         rejected == resourceResolution[uri].rejected
     IN IF resourceResolution[uri].examples
          THEN /\ reply' = Result(<<>>, NoOutcome, FALSE, "")
               /\ stage' = "idle"
               /\ lookups' = <<>>
               /\ ClientIdle
        ELSE IF i = NoTemplate
          THEN /\ reply' = UnknownResource(uri)
               /\ stage' = "idle"
               /\ lookups' = <<>>
               /\ ClientIdle
        ELSE IF rejected
          THEN /\ reply' = MissingParameter(kind)
               /\ stage' = "idle"
               /\ lookups' = <<>>
               /\ ClientIdle
        ELSE /\ reply' = NoReply
             /\ stage' = IF kind = "process-definition" THEN "pdRecord" ELSE "resource"
             /\ lookups' = <<resourceResolution[uri].lookup>>
             /\ MakeRequest(1)

(* GetPromptRequestSchema handler: a template text, or InvalidRequest      *)
KnownPrompts ==
  { <<"create_critical_incident">>, <<"list_active_incidents">>, <<"resolve_incident">>,
    <<"search_script_includes">>, <<"create_utility_script">>, <<"query_user_data">>,
    <<"analyze_incident_trends">>, <<"upload_incident_attachment">>,
    <<"process_definition_workflow">>, <<"bulk_update_records">> }
PromptNames == KnownPrompts \cup {<<"unknown_prompt">>}
GetPrompt(name) ==
  /\ CanAccept
  /\ request' = [kind |-> "prompt", text |-> name]
  /\ reply' = IF name \in KnownPrompts THEN Result(<<>>, NoOutcome, FALSE, "")
              ELSE About(McpError("InvalidRequest", <<"Unknown prompt">>, NoOutcome, {}), name)
  /\ handler' = NoRoute
  /\ stage' = "idle"
  /\ lookups' = <<>>
  /\ details' = NoDetails
  /\ ClientIdle

(* ListToolsRequestSchema handler                                          *)
ListTools ==
  /\ CanAccept
  /\ request' = [kind |-> "tools/list", text |-> <<>>]
  /\ reply' = Result(<<>>, NoOutcome, FALSE, "")
  /\ handler' = NoRoute
  /\ stage' = "idle"
  /\ lookups' = <<>>
  /\ details' = NoDetails
  /\ ClientIdle

(* the text a sub-handler's catch block puts in front of error.message     *)
(* (`Error retrieving incident: `, `Error querying table ...: `, ...),     *)
(* kept as one text per handler group                                      *)
ToolErrorText(h) ==
  CASE h = "handleIncidentTools" -> "Error with incident"
    [] h = "handleScriptIncludeTools" -> "Error with script include"
    [] h = "handleTableTools" -> "Error with table"
    [] h = "handleProcessDefinitionTools" -> "Error with process definition"
    [] OTHER -> "Error"

(* a tool handler after its client call: the sub-handlers of the incident, *)
(* script-include, table and process-definition groups catch the error and *)
(* return { content, isError: true }; handleProcessLaneTools catches it    *)
(* and returns { content }; the router wraps what was returned.            *)
ToolReply(h, o) ==
  IF o = Returned THEN Result(<<>>, NoOutcome, FALSE, "")
  ELSE Result(<<ToolErrorText(h)>>, o, h # "handleProcessLaneTools", "")

(* the two texts put in front of a failure of a resource's helper: by the  *)
(* handler's catch, and by the helper's own catch where it has one         *)
ResourceWraps(kind) ==
  CASE kind = "table-schema" -> <<"Failed to get table schema for">>
    [] kind = "table-data" -> <<"Failed to get table data sample for", "Failed to get sample data for table">>
    [] kind = "record" -> <<"Failed to get record", "Failed to get record">>
    [] kind = "incident" -> <<"Failed to get incident", "Failed to get incident">>
    [] kind = "user" -> <<"Failed to get user", "Failed to get user">>
    [] OTHER -> <<"Failed to get process definition", "Failed to get process definition">>

ResourceFailed(kind, base) == McpError("InternalError", ResourceWraps(kind), base, {})

(* a single-lookup resource after its client call                          *)
ResourceReply(kind, lookup, o, rows) ==
  IF o # Returned THEN ResourceFailed(kind, o)
  ELSE IF kind \in {"incident", "user"} /\ lookup.call = "queryTable"
    THEN IF rows = 0
           THEN ResourceFailed(kind, Plain(IF kind = "incident" THEN "No incident found with number"
                                           ELSE "No user found with username or email"))
           ELSE Result(<<>>, NoOutcome, FALSE, IF kind = "incident" THEN "number" ELSE "username_or_email")
  ELSE Result(<<>>, NoOutcome, FALSE, IF kind \in {"incident", "user"} THEN "sys_id" ELSE "")

(* handleExecuteProcessDefinition after its getRecord: the fields of the   *)
(* record it tests, and what it returns                                    *)
ProcessRecords == [active : {"true", "false"}, status : {"published", "draft"}]
ExecuteProcessDefinition == Tool(<<"process", "definition", "execute">>)
handleExecuteProcessDefinition_ActiveOnly(o, process) ==
  IF o # Returned THEN Result(<<"Error executing process definition">>, o, TRUE, "")
  ELSE IF process.active # "true"
    THEN Result(<<"Cannot execute process definition">>, Plain("Process is not active."), TRUE, "")
  ELSE Result(<<"Process execution initiated for">>, NoOutcome, FALSE, "")
handleExecuteProcessDefinition(o, process) ==
  IF o # Returned THEN Result(<<"Error executing process definition">>, o, TRUE, "")
  ELSE IF process.active # "true"
    THEN Result(<<"Cannot execute process definition">>, Plain("Process is not active."), TRUE, "")
  ELSE IF process.status # "published"
    THEN Result(<<"Cannot execute process definition">>, Plain("Process is not published"), TRUE, "")
  ELSE Result(<<"Process execution initiated for">>, NoOutcome, FALSE, "")

Stages == {"idle", "privateAuth", "tool", "resource",
           "pdRecord", "pdLanes", "pdLanesAlt", "pdActivities", "pdActivitiesAlt"}

(* getProcessDefinitionWithDetails between two client calls                *)
(* variant: a resolution that found no lane table raises                   *)
Finish_RaisesWithoutLanes(d) ==
  /\ details' = d
  /\ reply' = IF \E i \in 2..Len(d.answers) : d.answers[i].ok
               THEN Result(<<>>, NoOutcome, FALSE, "")
               ELSE ResourceFailed("process-definition", outcome[1])
  /\ stage' = "idle"
  /\ UNCHANGED lookups
  /\ ClientIdle
Finish(d) ==
  /\ details' = d
  /\ reply' = Result(<<>>, NoOutcome, FALSE, "")
  /\ stage' = "idle"
  /\ UNCHANGED lookups
  /\ ClientIdle
Continue(d, next, lookup) ==
  /\ details' = d
  /\ stage' = next
  /\ lookups' = Append(lookups, lookup)
  /\ UNCHANGED reply
  /\ MakeRequest(1)
NextLane(d) ==
  IF d.lane < d.lanes
    THEN Continue([d EXCEPT !.lane = d.lane + 1], "pdActivities",
                  Lookup("queryTable", "sys_pd_activity_definition", "lane"))
    ELSE Finish(d)
(* variant: an empty lane result is treated like a throw                   *)
ProcessDefinitionStep_FallbackOnEmpty(ok, rows) ==
  LET d == [details EXCEPT !.answers = Append(@, Answer(ok, rows))] IN
  CASE stage = "pdRecord" ->
         IF ok THEN Continue(d, "pdLanes", Lookup("queryTable", "sys_pd_lane_definition", "process_definition"))
         ELSE /\ reply' = ResourceFailed("process-definition", outcome[1])
              /\ stage' = "idle"
              /\ details' = d
              /\ UNCHANGED lookups
              /\ ClientIdle
    [] stage = "pdLanes" ->
         IF ok /\ rows > 0 THEN NextLane([d EXCEPT !.lanes = rows])
         ELSE Continue(d, "pdLanesAlt", Lookup("queryTable", "sys_pd_lane", "process_definition"))
    [] stage = "pdLanesAlt" ->
         IF ok THEN NextLane([d EXCEPT !.lanes = rows]) ELSE Finish(d)
    [] stage = "pdActivities" ->
         IF ok THEN NextLane([d EXCEPT !.activities = d.activities + rows])
         ELSE Continue(d, "pdActivitiesAlt", Lookup("queryTable", "sys_pd_activity", "lane"))
    [] OTHER ->
         IF ok THEN NextLane([d EXCEPT !.activities = d.activities + rows])
         ELSE NextLane(d)

ProcessDefinitionStep(ok, rows) ==
  LET d == [details EXCEPT !.answers = Append(@, Answer(ok, rows))] IN
  CASE stage = "pdRecord" ->
         IF ok THEN Continue(d, "pdLanes", Lookup("queryTable", "sys_pd_lane_definition", "process_definition"))
         ELSE /\ reply' = ResourceFailed("process-definition", outcome[1])
              /\ stage' = "idle"
              /\ details' = d
              /\ UNCHANGED lookups
              /\ ClientIdle
    [] stage = "pdLanes" ->
         IF ok THEN NextLane([d EXCEPT !.lanes = rows])
         ELSE Continue(d, "pdLanesAlt", Lookup("queryTable", "sys_pd_lane", "process_definition"))
    [] stage = "pdLanesAlt" ->
         IF ok THEN NextLane([d EXCEPT !.lanes = rows]) ELSE Finish(d)
    [] stage = "pdActivities" ->
         IF ok THEN NextLane([d EXCEPT !.activities = d.activities + rows])
         ELSE Continue(d, "pdActivitiesAlt", Lookup("queryTable", "sys_pd_activity", "lane"))
    [] OTHER ->
         IF ok THEN NextLane([d EXCEPT !.activities = d.activities + rows])
         ELSE NextLane(d)

(* the handler of the request in progress runs on from the client call it  *)
(* awaited; rows is the number of records a successful query returned      *)
HandlerResume(rows) ==
  /\ stage \in Stages \ {"idle", "privateAuth"}
  /\ pc[1] = "idle"
  /\ UNCHANGED <<request, handler>>
  /\ IF stage = "tool" /\ request.text = ExecuteProcessDefinition
       THEN /\ \E process \in IF outcome[1] = Returned THEN ProcessRecords ELSE {NoRecord} :
                 /\ reply' = handleExecuteProcessDefinition(outcome[1], process)
                 /\ details' = [details EXCEPT !.record = process]
            /\ stage' = "idle"
            /\ UNCHANGED lookups
            /\ ClientIdle
     ELSE IF stage = "tool"
       THEN /\ reply' = ToolReply(handler, outcome[1])
            /\ stage' = "idle"
            /\ UNCHANGED <<lookups, details>>
            /\ ClientIdle
     ELSE IF stage = "resource"
       THEN /\ reply' = ResourceReply(resourceResolution[request.text].kind,
                                      lookups[1], outcome[1], rows)
            /\ stage' = "idle"
            /\ UNCHANGED <<lookups, details>>
            /\ ClientIdle
     ELSE ProcessDefinitionStep(outcome[1] = Returned, rows)

(* ---------------- startup and exit of the process ---------------- *)
(* variant: the transport is connected while the first authentication is   *)
(* still pending                                                           *)
Initialize_ListensAtOnce ==
  /\ phase = "constructed"
  /\ UNCHANGED env
  /\ IF missing(env) # <<>>
       THEN /\ phase' = "exited"
            /\ fatal' = Fatal("Missing required env vars", missing(env))
            /\ UNCHANGED <<serviceNowClient, clock, session, nTok, calls, history>>
       ELSE /\ serviceNowClient' = "created"
            /\ phase' = "listening"
            /\ UNCHANGED fatal
            /\ Authenticate(1)

(* main(): the constructor has run; initialize() validates the             *)
(* environment, creates the client and starts authenticate(). An error     *)
(* thrown by validateEnv is rethrown to main().catch, which exits with 1.  *)
Initialize ==
  /\ phase = "constructed"
  /\ UNCHANGED env
  /\ IF missing(env) # <<>>
       THEN /\ phase' = "exited"
            /\ fatal' = Fatal("Missing required env vars", missing(env))
            /\ UNCHANGED <<serviceNowClient, clock, session, nTok, calls, history>>
       ELSE /\ serviceNowClient' = "created"
            /\ phase' = "authenticating"
            /\ UNCHANGED fatal
            /\ Authenticate(1)

(* initialize() after the awaited authenticate(): on success main() goes   *)
(* on to run(), which connects the transport; an error is rethrown to      *)
(* main().catch, which exits with 1.                                       *)
InitializeResume ==
  /\ phase = "authenticating"
  /\ pc[1] = "idle"
  /\ UNCHANGED <<env, serviceNowClient, clock, session, nTok, calls, history>>
  /\ IF outcome[1] = Returned
       THEN phase' = "listening" /\ UNCHANGED fatal
       ELSE phase' = "exited" /\ fatal' = Fatal(outcome[1].prefix, <<>>)

(* SIGINT: the handler closes the server and exits with 0                  *)
Interrupt ==
  /\ phase # "exited"
  /\ phase' = "exited"
  /\ fatal' = Interrupted
  /\ UNCHANGED <<env, serviceNowClient, clock, session, nTok, calls, history>>

Running == phase # "exited"
Listening == phase = "listening"

(* ---------------- tool arguments and client methods on the wire -------- *)
WireOnly == UNCHANGED <<clock, session, nTok, calls, history, server, boot>>

(* servicenow_incident_list, from its arguments to the request it asks for *)
ListIncidentsTool(args) ==
  /\ toolArgs' = [args EXCEPT !.op = "servicenow_incident_list"]
  /\ requested' = handleListIncidents(args)
  /\ response' = Serve(handleListIncidents(args))
  /\ UNCHANGED store
  /\ WireOnly

(* servicenow_query_table, likewise                                        *)
QueryTableTool(args) ==
  /\ toolArgs' = [args EXCEPT !.op = "servicenow_query_table"]
  /\ requested' = handleQueryTable(args)
  /\ response' = Serve(handleQueryTable(args))
  /\ UNCHANGED store
  /\ WireOnly

(* client.createRecord(table, data) against the store                      *)
CreateRecord(table, data) ==
  /\ Len(store) < MaxRecords
  /\ toolArgs' = [NoArgs EXCEPT !.op = "createRecord", !.table = table, !.data = data]
  /\ requested' = createRecord(table, data)
  /\ response' = Serve(createRecord(table, data))
  /\ store' = Append(store, [table |-> table, fields |-> createRecord(table, data).data.fields])
  /\ WireOnly

(* client.getRecord(table, sysId, fields) against the store                *)
GetRecord(table, sysId, fields) ==
  /\ toolArgs' = [NoArgs EXCEPT !.op = "getRecord", !.table = table, !.sysId = sysId,
                                !.fields = fields]
  /\ requested' = getRecord(table, sysId, fields)
  /\ response' = Serve(getRecord(table, sysId, fields))
  /\ UNCHANGED store
  /\ WireOnly

Next ==
  \/ \E d \in TickSteps : Tick(d) /\ UNCHANGED <<server, wire, boot>>
  \/ \E p \in Callers : MakeRequest(p) /\ UNCHANGED <<server, wire, boot>>
  \/ \E p \in Callers : EnsureAuthenticated(p) /\ UNCHANGED <<server, wire, boot>>
  \/ \E p \in Callers : Authenticate(p) /\ UNCHANGED <<server, wire, boot>>
  \/ \E p \in Callers, r \in ExpiresInReports : AuthSuccess(p, r) /\ UNCHANGED <<server, wire, boot>>
  \/ \E p \in Callers, e \in AuthErrors : AuthFail(p, e) /\ UNCHANGED <<server, wire, boot>>
  \/ \E p \in Callers, b \in NoTokenBodies : AuthNoToken(p, b) /\ UNCHANGED <<server, wire, boot>>
  \/ \E p \in Callers : RequestSuccess(p) /\ UNCHANGED <<server, wire, boot>>
  \/ \E p \in Callers, e \in RequestErrors : RequestFail(p, e) /\ UNCHANGED <<server, wire, boot>>

Spec == Init /\ [][Next]_vars

(* One caller, no passage of time, every shape of answer and of transport  *)
(* error: the specification under which the handling of a single token     *)
(* response and the two catch blocks are checked.                          *)
NextErrors ==
  \/ MakeRequest(1) /\ UNCHANGED <<server, wire, boot>>
  \/ Authenticate(1) /\ UNCHANGED <<server, wire, boot>>
  \/ \E r \in AllExpiresInReports : AuthSuccess(1, r) /\ UNCHANGED <<server, wire, boot>>
  \/ \E e \in AllAuthErrors : AuthFail(1, e) /\ UNCHANGED <<server, wire, boot>>
  \/ \E b \in NoTokenBodies : AuthNoToken(1, b) /\ UNCHANGED <<server, wire, boot>>
  \/ RequestSuccess(1) /\ UNCHANGED <<server, wire, boot>>
  \/ \E e \in AllRequestErrors : RequestFail(1, e) /\ UNCHANGED <<server, wire, boot>>

SpecErrors == Init /\ [][NextErrors]_vars

(* The protocol server in front of the shared client: one request at a     *)
(* time, whose handler uses the client as caller 1.                        *)
NextServer ==
  \/ \E n \in ToolNames : CallTool(n) /\ UNCHANGED <<wire, boot>>
  \/ \E u \in ResourceUris : ReadResource(u) /\ UNCHANGED <<wire, boot>>
  \/ \E n \in PromptNames : GetPrompt(n) /\ UNCHANGED <<wire, boot>>
  \/ ListTools /\ UNCHANGED <<wire, boot>>
  \/ ProcessActivityAuthenticated /\ UNCHANGED <<wire, boot>>
  \/ \E e \in AuthErrors : ProcessActivityAuthThrows(e) /\ UNCHANGED <<wire, boot>>
  \/ \E rows \in 0..MaxRows : HandlerResume(rows) /\ UNCHANGED <<wire, boot>>
  \/ \E r \in ExpiresInReports : AuthSuccess(1, r) /\ UNCHANGED <<server, wire, boot>>
  \/ \E e \in AuthErrors : AuthFail(1, e) /\ UNCHANGED <<server, wire, boot>>
  \/ \E b \in NoTokenBodies : AuthNoToken(1, b) /\ UNCHANGED <<server, wire, boot>>
  \/ RequestSuccess(1) /\ UNCHANGED <<server, wire, boot>>
  \/ \E e \in RequestErrors : RequestFail(1, e) /\ UNCHANGED <<server, wire, boot>>

SpecServer == Init /\ [][NextServer]_vars

(* The two list tools, over their optional arguments.                      *)
NextQueries ==
  \/ \E a \in ListArguments : ListIncidentsTool(a)
  \/ \E a \in ListArguments, t \in Tables : QueryTableTool([a EXCEPT !.table = t])

SpecQueries == Init /\ [][NextQueries]_vars

(* createRecord and getRecord against a store that gives back what it was  *)
(* given.                                                                  *)
NextRecords ==
  \/ \E t \in Tables, d \in DataMappings : CreateRecord(t, d)
  \/ \E t \in Tables, id \in 1..MaxRecords, f \in {Absent, "name"} : GetRecord(t, id, f)

SpecRecords == Init /\ [][NextRecords]_vars

(* The process from main() on: startup, then the protocol server of        *)
(* SpecServer once the transport is connected, until the process exits.    *)
InitStartup ==
  /\ SessionInit
  /\ ServerInit
  /\ WireInit
  /\ env \in Envs
  /\ phase = "constructed"
  /\ serviceNowClient = NoClient
  /\ fatal = NoFatal

NextStartup ==
  \/ Initialize /\ UNCHANGED <<server, wire>>
  \/ InitializeResume /\ UNCHANGED <<server, wire>>
  \/ Interrupt /\ UNCHANGED <<server, wire>>
  \/ \E r \in ExpiresInReports : Running /\ AuthSuccess(1, r) /\ UNCHANGED <<server, wire, boot>>
  \/ \E e \in AuthErrors : Running /\ AuthFail(1, e) /\ UNCHANGED <<server, wire, boot>>
  \/ \E b \in NoTokenBodies : Running /\ AuthNoToken(1, b) /\ UNCHANGED <<server, wire, boot>>
  \/ Running /\ RequestSuccess(1) /\ UNCHANGED <<server, wire, boot>>
  \/ \E e \in RequestErrors : Running /\ RequestFail(1, e) /\ UNCHANGED <<server, wire, boot>>
  \/ \E n \in ToolNames : Listening /\ CallTool(n) /\ UNCHANGED <<wire, boot>>
  \/ \E u \in ResourceUris : Listening /\ ReadResource(u) /\ UNCHANGED <<wire, boot>>
  \/ \E n \in PromptNames : Listening /\ GetPrompt(n) /\ UNCHANGED <<wire, boot>>
  \/ Listening /\ ListTools /\ UNCHANGED <<wire, boot>>
  \/ Listening /\ ProcessActivityAuthenticated /\ UNCHANGED <<wire, boot>>
  \/ \E e \in AuthErrors : Listening /\ ProcessActivityAuthThrows(e) /\ UNCHANGED <<wire, boot>>
  \/ \E rows \in 0..MaxRows : Listening /\ HandlerResume(rows) /\ UNCHANGED <<wire, boot>>

SpecStartup == InitStartup /\ [][NextStartup]_vars

TypeOK ==
  /\ accessToken \in 0..MaxTokens
  /\ nTok \in 0..MaxTokens
  /\ pc \in [Callers -> {"idle", "authWait", "reqWait"}]

(* ======================= properties ======================= *)
IsAuthError(o) ==
  o.prefix \in {"Authentication failed: ",
                "Authentication failed: No response from ServiceNow server"}

(* caller p hands its business request to the HTTP client in this step     *)
IssuesRequest(p) == pc[p] # "reqWait" /\ pc'[p] = "reqWait"

(* caller p enters ensureAuthenticated in this step and finds that it has  *)
(* to authenticate                                                         *)
EnsureStartsAuth(p) ==
  /\ pc[p] = "idle"
  /\ pc'[p] = "authWait"
  /\ op'[p] \in {"makeRequest", "ensureAuthenticated"}

(* caller p enters ensureAuthenticated in this step (directly or through   *)
(* makeRequest)                                                            *)
EnsureStarts(p) ==
  /\ pc[p] = "idle"
  /\ op'[p] \in {"makeRequest", "ensureAuthenticated"}
  /\ <<pc[p], op[p], outcome[p], tokReq[p], bizReq[p]>> #
       <<pc'[p], op'[p], outcome'[p], tokReq'[p], bizReq'[p]>>

(* C1: whenever makeRequest issues its business request, the session holds *)
(* a token whose recorded expiry is later than the current instant.        *)
C1_TokenValidAtIssue ==
  [][\A p \in Callers :
       IssuesRequest(p) =>
         accessToken' # Null /\ tokenExpiry' # Null /\ tokenExpiry' > now']_vars

(* a business request issued on a token that was re-acquired after time    *)
(* had passed                                                              *)
C1_Witness ==
  \E p \in Callers :
    /\ pc[p] = "reqWait" /\ tokReq[p] = 1
    /\ ticks > 0 /\ accessToken = 2 /\ tokenExpiry > now

(* C2: ensureAuthenticated authenticates when no token is held, no expiry  *)
(* is held or now > tokenExpiry - 300000; in every other state it makes no *)
(* token request and leaves the session as it is.                          *)
C2_EnsureDecision ==
  [][\A p \in Callers :
       EnsureStarts(p) =>
         IF accessToken = Null \/ tokenExpiry = Null \/ now > tokenExpiry - 300000
           THEN pc'[p] = "authWait" /\ tokReq'[p] = 1
           ELSE /\ pc'[p] # "authWait" /\ tokReq'[p] = 0
                /\ nTok' = nTok
                /\ accessToken' = accessToken
                /\ tokenExpiry' = tokenExpiry
                /\ authHeader' = authHeader]_vars

(* a call that went on without authenticating exactly 5 minutes before the *)
(* expiry                                                                  *)
C2_Witness ==
  \E p \in Callers :
    /\ pc[p] = "reqWait" /\ tokReq[p] = 0
    /\ accessToken # Null /\ now = tokenExpiry - 300000

C4_TokenAndExpiryTogether == (accessToken = Null) <=> (tokenExpiry = Null)

(* a session that holds a token while a later authenticate has failed      *)
C4_Witness ==
  /\ accessToken # Null /\ tokenExpiry # Null
  /\ \E p \in Callers : pc[p] = "idle" /\ IsAuthError(outcome[p])

(* C5: with concurrent calls each call makes at most one token request,    *)
(* the session holds the token and the expiry of the one token response    *)
(* stored last, and no business request is pending on a session without a  *)
(* token.                                                                  *)
C5_LastWriteWins ==
  /\ \A p \in Callers : tokReq[p] <= 1
  /\ (\A p \in Callers : pc[p] # "authWait") =>
        (accessToken = lastWrite.tok /\ tokenExpiry = lastWrite.exp)
  /\ \A p \in Callers : pc[p] = "reqWait" => accessToken # Null

(* both callers authenticated concurrently, with different lifetimes, and  *)
(* both now wait for their business response                               *)
C5_Witness ==
  /\ \A p \in Callers : pc[p] = "reqWait" /\ tokReq[p] = 1 /\ op[p] = "makeRequest"
  /\ accessToken = 2 /\ nTok = 2
  /\ tokenExpiry = now + 60000

(* caller p's makeRequest ends in this step because authenticate threw     *)
AuthFailsFor(p) == op[p] = "makeRequest" /\ pc[p] = "authWait" /\ pc'[p] = "idle"

(* caller q starts a makeRequest in this step                              *)
StartsMakeRequest(q) == pc[q] = "idle" /\ pc'[q] # "idle" /\ op'[q] = "makeRequest"

(* C6 as stated: a failed authentication reaches the caller, issues no     *)
(* business request and leaves token and expiry alone, and the next        *)
(* makeRequest on the session authenticates again.                         *)
C6_FailureThenRetry ==
  [][/\ \A p \in Callers :
          AuthFailsFor(p) =>
            /\ IsAuthError(outcome'[p]) /\ bizReq'[p] = 0
            /\ accessToken' = accessToken /\ tokenExpiry' = tokenExpiry
     /\ \A q \in Callers :
          (failState # "none" /\ StartsMakeRequest(q)) =>
            pc'[q] = "authWait" /\ tokReq'[q] = 1]_vars

(* C6 amended: the next makeRequest authenticates again unless a token     *)
(* response of another call was stored after the failed call began.        *)
C6_FailureThenRetryUnlessRefreshed ==
  [][/\ \A p \in Callers :
          AuthFailsFor(p) =>
            /\ IsAuthError(outcome'[p]) /\ bizReq'[p] = 0
            /\ accessToken' = accessToken /\ tokenExpiry' = tokenExpiry
     /\ \A q \in Callers :
          (failState = "failed" /\ StartsMakeRequest(q)) =>
            pc'[q] = "authWait" /\ tokReq'[q] = 1]_vars

(* caller q's makeRequest lost its authentication while the session held   *)
(* an earlier token, and the next makeRequest, by p, is authenticating     *)
C6_Witness ==
  \E p, q \in Callers :
    /\ p # q
    /\ pc[q] = "idle" /\ op[q] = "makeRequest" /\ IsAuthError(outcome[q])
    /\ bizReq[q] = 0 /\ ~refreshed[q]
    /\ accessToken # Null
    /\ pc[p] = "authWait" /\ op[p] = "makeRequest" /\ tokReq[p] = 1
    /\ failState = "none"

(* C7: a successful authenticate stores the token, the header, and as      *)
(* expiry now + expires_in * 1000 whenever the server reports expires_in,  *)
(* now + 3600 * 1000 when it reports none.                                 *)
C7_StoredExpiry ==
  [][accessToken' # accessToken =>
       /\ accessToken' = lastWrite'.tok
       /\ authHeader' = Bearer(accessToken')
       /\ tokenExpiry' = now + (IF lastWrite'.report.reported
                                  THEN lastWrite'.report.seconds * 1000
                                  ELSE 3600 * 1000)]_vars

(* C8: authenticate turns every failure into exactly one of three errors:  *)
(* status and error_description (status text when there is none) for an    *)
(* HTTP error response, the no-response error when nothing came back, the  *)
(* generic error with the local message otherwise.                         *)
C8_AuthErrorClasses ==
  \A p \in Callers :
    (pc[p] = "idle" /\ cause[p] # NoCause /\ bizReq[p] = 0) =>
      LET e == cause[p] o == outcome[p] IN
      /\ e.hasResponse =>
           /\ o.prefix = "Authentication failed: " /\ o.status = e.status
           /\ o.detail = (IF e.error_description \in {Absent, ""}
                            THEN e.statusText ELSE e.error_description)
      /\ (~e.hasResponse /\ e.hasRequest) =>
           o = Thrown("Authentication failed: No response from ServiceNow server", 0, "")
      /\ (~e.hasResponse /\ ~e.hasRequest) =>
           o = Thrown("Authentication failed: ", 0, e.message)

(* an HTTP 400 whose body has an empty error_description was reported with *)
(* the status text                                                         *)
C8_Witness ==
  \E p \in Callers :
    /\ pc[p] = "idle" /\ bizReq[p] = 0
    /\ cause[p].hasResponse /\ cause[p].hasRequest
    /\ cause[p].status = 400 /\ cause[p].error_description = ""
    /\ outcome[p] = Thrown("Authentication failed: ", 400, "Bad Request")

(* C9: one makeRequest issues at most one token request and at most one    *)
(* business request, and a failed business request is followed by neither  *)
(* another business request nor a token request.                           *)
C9_NoRetry ==
  [][\A p \in Callers :
       /\ tokReq'[p] <= 1 /\ bizReq'[p] <= 1
       /\ (pc[p] = "reqWait" /\ pc'[p] # "reqWait") =>
            /\ pc'[p] = "idle"
            /\ tokReq'[p] = tokReq[p] /\ bizReq'[p] = bizReq[p]
            /\ nTok' = nTok]_vars

(* a makeRequest that authenticated, got a 401 for its business request    *)
(* and ended there                                                         *)
C9_Witness ==
  \E p \in Callers :
    /\ pc[p] = "idle" /\ op[p] = "makeRequest"
    /\ outcome[p].prefix = "ServiceNow API error" /\ outcome[p].status = 401
    /\ tokReq[p] = 1 /\ bizReq[p] = 1

(* C10: makeRequest turns every failure of the business request into       *)
(* exactly one error: status and error.message, else error.detail, else    *)
(* the status text for a non-2xx response; the no-response error when      *)
(* nothing came back; the request-failed error with the local message      *)
(* otherwise.                                                              *)
C10_RequestErrorClasses ==
  \A p \in Callers :
    (pc[p] = "idle" /\ cause[p] # NoCause /\ bizReq[p] = 1) =>
      LET e == cause[p] o == outcome[p] IN
      /\ e.hasResponse =>
           /\ o.prefix = "ServiceNow API error" /\ o.status = e.status
           /\ o.detail = (IF e.errMessage \notin {Absent, ""} THEN e.errMessage
                          ELSE IF e.errDetail \notin {Absent, ""} THEN e.errDetail
                          ELSE e.statusText)
      /\ (~e.hasResponse /\ e.hasRequest) =>
           o = Thrown("No response from ServiceNow server", 0, "")
      /\ (~e.hasResponse /\ ~e.hasRequest) =>
           o = Thrown("Request failed: ", 0, e.message)

(* a 403 whose body has an empty error.message was reported with           *)
(* error.detail                                                            *)
C10_Witness ==
  \E p \in Callers :
    /\ pc[p] = "idle" /\ bizReq[p] = 1
    /\ cause[p].hasResponse /\ cause[p].status = 403
    /\ cause[p].errMessage = "" /\ cause[p].errDetail = "Record doesn't exist"
    /\ outcome[p] = Thrown("ServiceNow API error", 403, "Record doesn't exist")

(* ---------------- C11 ---------------- *)
(* a step in which the authenticate of caller p stores a token response    *)
AuthenticateSucceeds(p) ==
  pc[p] = "authWait" /\ pc'[p] # "authWait" /\ nTok' = nTok + 1

(* C11: accessToken and tokenExpiry change only in a step in which an      *)
(* authenticate succeeds; the business part of makeRequest (success or     *)
(* failure), the table wrappers behind the tools and resources, tool       *)
(* routing, resource resolution and prompt fetches leave both unchanged.   *)
C11_OnlyAuthenticateWritesSession ==
  [][(accessToken' # accessToken \/ tokenExpiry' # tokenExpiry)
       => \E p \in Callers : AuthenticateSucceeds(p)]_vars

(* a resource read whose business request failed while a token was held    *)
C11_Witness ==
  /\ request.kind = "resource"
  /\ reply.code = "InternalError"
  /\ reply.base.prefix = "ServiceNow API error"
  /\ lookups[1].call = "getRecord"
  /\ accessToken # Null
  /\ tokenExpiry # Null

(* ---------------- C12 ---------------- *)
Has(name, needle) == Includes(Chars(name), Chars(needle))

(* the routing order with the generic-table rule read as "ends in _record" *)
StatedRoute(name) ==
  IF Has(name, <<"_", "incident">>) THEN "handleIncidentTools"
  ELSE IF Has(name, <<"script", "_", "include">>) THEN "handleScriptIncludeTools"
  ELSE IF Has(name, <<"query", "_", "table">>) \/ EndsWith(Chars(name), Chars(<<"_", "record">>))
    THEN "handleTableTools"
  ELSE IF Has(name, <<"process", "_", "definition">>) THEN "handleProcessDefinitionTools"
  ELSE IF Has(name, <<"process", "_", "lane">>) THEN "handleProcessLaneTools"
  ELSE IF Has(name, <<"process", "_", "activity">>) \/ Has(name, <<"activity", "_", "definition">>)
    THEN "handleProcessActivityTools"
  ELSE IF Has(name, <<"_", "attachment">>) THEN "handleAttachmentTools"
  ELSE NoRoute

(* the routing order with the generic-table rule read as "contains _record" *)
AmendedRoute(name) ==
  IF Has(name, <<"_", "incident">>) THEN "handleIncidentTools"
  ELSE IF Has(name, <<"script", "_", "include">>) THEN "handleScriptIncludeTools"
  ELSE IF Has(name, <<"query", "_", "table">>) \/ Has(name, <<"_", "record">>)
    THEN "handleTableTools"
  ELSE IF Has(name, <<"process", "_", "definition">>) THEN "handleProcessDefinitionTools"
  ELSE IF Has(name, <<"process", "_", "lane">>) THEN "handleProcessLaneTools"
  ELSE IF Has(name, <<"process", "_", "activity">>) \/ Has(name, <<"activity", "_", "definition">>)
    THEN "handleProcessActivityTools"
  ELSE IF Has(name, <<"_", "attachment">>) THEN "handleAttachmentTools"
  ELSE NoRoute

(* C12 as stated: every tool call is handed to the group of the first      *)
(* matching rule in the order incident, script-include, generic table      *)
(* (contains query_table or ends in _record), process-definition,          *)
(* process-lane, process-activity, attachment, and is rejected as          *)
(* MethodNotFound when no rule matches.                                    *)
C12_RouterOrderEndsInRecord ==
  request.kind = "tool" =>
    /\ handler = StatedRoute(request.text)
    /\ (StatedRoute(request.text) = NoRoute) <=> (reply.code = "MethodNotFound")

(* C12 amended: the same order, the generic-table rule being "contains     *)
(* query_table or contains _record".                                       *)
C12_RouterOrderContainsRecord ==
  request.kind = "tool" =>
    /\ handler = AmendedRoute(request.text)
    /\ (AmendedRoute(request.text) = NoRoute) <=> (reply.code = "MethodNotFound")

(* a name that matches two rules went to the group of the earlier one      *)
C12_Witness ==
  /\ request = [kind |-> "tool", text |-> Tool(<<"attachment", "record">>)]
  /\ Has(request.text, <<"_", "attachment">>)
  /\ handler = "handleTableTools"

(* ---------------- C13 ---------------- *)
(* the server accepts a tool call with the given property of its name      *)
AcceptsToolCall(P(_)) ==
  /\ CanAccept
  /\ request' # request
  /\ request'.kind = "tool"
  /\ P(request'.text)

MatchesNoRule(name) == \A i \in DOMAIN toolRouter : ~Match(i, name)

(* C13: a tool call whose name matches none of the routing predicates is   *)
(* answered MethodNotFound in the same step: no handler is invoked, no     *)
(* token request and no business request is started, and the session's     *)
(* token, expiry and header stay as they were.                             *)
C13_UnknownToolTouchesNothing ==
  [][AcceptsToolCall(MatchesNoRule) =>
       /\ reply'.kind = "McpError"
       /\ reply'.code = "MethodNotFound"
       /\ handler' = NoRoute
       /\ stage' = "idle"
       /\ lookups' = <<>>
       /\ UNCHANGED <<session, nTok, pc, tokReq, bizReq>>]_vars

(* servicenow_unknown_tool was rejected while the session held a token     *)
C13_Witness ==
  /\ request = [kind |-> "tool", text |-> Tool(<<"unknown", "tool">>)]
  /\ reply.code = "MethodNotFound"
  /\ accessToken # Null
  /\ pc[1] = "idle"

(* ---------------- C14 ---------------- *)
MatchingRules(name) == { i \in DOMAIN toolRouter : Match(i, name) }

(* C14: for every tool name that tools/list returns, exactly one routing   *)
(* predicate matches, the handler group invoked for a call of that name is *)
(* the group whose registration declared it, and the call is not rejected  *)
(* as MethodNotFound.                                                      *)
C14_ListedToolReachesItsGroup ==
  (request.kind = "tool" /\ request.text \in ListedTools) =>
    /\ Cardinality(MatchingRules(request.text)) = 1
    /\ handler \in Handlers
    /\ request.text \in Registration[handler].tools
    /\ reply.code # "MethodNotFound"

(* ---------------- C15 ---------------- *)
(* the error a handler raises, when the handler invoked for the request    *)
(* raises: a name its switch has no case for (outside the try of           *)
(* handleProcessLaneTools), the missing client.request of the attachment   *)
(* functions, the login and the destructuring of handleProcessActivityTools *)
HandlerRaised ==
  /\ request.kind = "tool"
  /\ handler \in Handlers
  /\ stage = "idle"
  /\ \/ handler \in {"handleAttachmentTools", "handleProcessActivityTools"}
     \/ /\ handler # "handleProcessLaneTools"
        /\ request.text \notin Registration[handler].tools

(* C15: whenever the handler the router selected raises, the answer is an  *)
(* McpError with code InternalError whose message is `Tool execution       *)
(* failed`, the tool name and the original error message; it is never      *)
(* another error code and never a normal result.                           *)
C15_HandlerErrorBecomesInternalError ==
  HandlerRaised =>
    /\ reply.kind = "McpError"
    /\ reply.code = "InternalError"
    /\ Head(reply.wraps) = "Tool execution failed"
    /\ reply.about = request.text
    /\ reply.base # NoOutcome
    /\ reply.base.prefix # ""

(* an attachment tool raised because the client has no request method      *)
C15_Witness ==
  /\ request = [kind |-> "tool", text |-> Tool(<<"attachment", "list">>)]
  /\ handler = "handleAttachmentTools"
  /\ reply.code = "InternalError"
  /\ reply.wraps = <<"Tool execution failed", "Failed to list attachments">>
  /\ reply.base = Plain("client.request is not a function")

(* ---------------- C16 ---------------- *)
(* the client call behind the finished tool call failed: API error, no     *)
(* response, or failed authentication                                      *)
BackingCallFailed ==
  /\ request.kind = "tool"
  /\ stage = "idle"
  /\ lookups # <<>>
  /\ outcome[1] \notin {NoOutcome, Returned}

(* C16: when the backing-service call of a tool call fails, the tool call  *)
(* ends with a thrown protocol error and never with a normal result,       *)
(* whichever handler group served it.                                      *)
C16_BackingFailureIsThrown ==
  BackingCallFailed => reply.kind = "McpError"

(* ---------------- C17 ---------------- *)
(* the text after servicenow://record/ of a record URI, cut at every "/"   *)
RECURSIVE Segments(_, _)
Segments(s, acc) ==
  IF s = <<>> THEN <<acc>>
  ELSE IF Head(s) = "/" THEN <<acc>> \o Segments(Tail(s), <<>>)
  ELSE Segments(Tail(s), Append(acc, Head(s)))

IsRecordUri(uri) == StartsWith(Chars(uri), Chars(Uri(<<"record", "/">>)))
RecordSegments(uri) ==
  Segments(SubSeq(Chars(uri), Len(Chars(Uri(<<"record", "/">>))) + 1, Len(Chars(uri))), <<>>)
TwoNonEmptySegments(uri) ==
  /\ Len(RecordSegments(uri)) = 2
  /\ \A i \in 1..2 : RecordSegments(uri)[i] # <<>>

(* C17: the read of a record URI starts a backing-service call (one        *)
(* getRecord) exactly when the text after servicenow://record/ splits on   *)
(* "/" into two non-empty segments; with one segment, an empty segment or  *)
(* more than two segments the read is answered InvalidRequest in the same  *)
(* step and no client call is started.                                     *)
C17_RecordNeedsTableAndSysId ==
  [][(CanAccept /\ request' # request /\ request'.kind = "resource" /\ IsRecordUri(request'.text)) =>
       IF TwoNonEmptySegments(request'.text)
         THEN /\ lookups' = <<Lookup("getRecord", "{table}", "sys_id")>>
              /\ pc'[1] # "idle"
              /\ reply' = NoReply
         ELSE /\ reply'.kind = "McpError"
              /\ reply'.code = "InvalidRequest"
              /\ lookups' = <<>>
              /\ stage' = "idle"
              /\ UNCHANGED <<pc, tokReq, bizReq>>]_vars

(* a record URI with three segments was rejected without a client call    *)
C17_Witness ==
  /\ request = [kind |-> "resource", text |-> Uri(<<"record", "/", "incident", "/", SysId, "/", "data">>)]
  /\ reply.code = "InvalidRequest"
  /\ lookups = <<>>
  /\ accessToken # Null

(* ---------------- C18 ---------------- *)
Lower(c) ==
  CASE c = "A" -> "a" [] c = "B" -> "b" [] c = "C" -> "c"
    [] c = "D" -> "d" [] c = "E" -> "e" [] c = "F" -> "f" [] OTHER -> c
Is32Hex(id) ==
  /\ Len(id) = 32
  /\ \A i \in 1..Len(id) :
       Lower(id[i]) \in {"0", "1", "2", "3", "4", "5", "6", "7", "8", "9", "a", "b", "c", "d", "e", "f"}

(* the identifier of an incident or user URI: the text after the prefix    *)
IdentifierOf(uri, kind) ==
  SubSeq(Chars(uri), Len(Chars(Uri(<<kind, "/">>))) + 1, Len(Chars(uri)))
IsUriOf(uri, kind) == StartsWith(Chars(uri), Chars(Uri(<<kind, "/">>)))

(* C18: for an incident or user URI with a non-empty identifier, the       *)
(* resolver starts exactly one lookup: a get-by-id (lookup_method sys_id)  *)
(* when the identifier is 32 hexadecimal characters in either case, and    *)
(* otherwise a query (number equality on incident, user_name or email on   *)
(* sys_user; lookup_method number / username_or_email) and no get-by-id.   *)
C18_LookupByIdentifierShape ==
  \A kind \in {"incident", "user"} :
    (request.kind = "resource" /\ IsUriOf(request.text, kind)
       /\ IdentifierOf(request.text, kind) # <<>>) =>
      LET table == IF kind = "incident" THEN "incident" ELSE "sys_user"
          byQuery == IF kind = "incident" THEN "number" ELSE "user_name^ORemail"
          method == IF kind = "incident" THEN "number" ELSE "username_or_email"
      IN IF Is32Hex(IdentifierOf(request.text, kind))
           THEN /\ lookups = <<Lookup("getRecord", table, "sys_id")>>
                /\ reply.kind = "result" => reply.lookup_method = "sys_id"
           ELSE /\ lookups = <<Lookup("queryTable", table, byQuery)>>
                /\ reply.kind = "result" => reply.lookup_method = method

(* a user URI with an upper-case sys_id was answered from a get-by-id, and *)
(* nothing else was looked up                                              *)
C18_Witness ==
  /\ request = [kind |-> "resource", text |-> Uri(<<"user", "/", "1C741BD70B2322007518478D83673AF3">>)]
  /\ lookups = <<Lookup("getRecord", "sys_user", "sys_id")>>
  /\ reply.kind = "result"
  /\ reply.lookup_method = "sys_id"

(* ---------------- C19 ---------------- *)
PrefixOf(kind) ==
  CASE kind = "table-schema" -> Uri(<<"table", "-", "schema", "/">>)
    [] kind = "table-data" -> Uri(<<"table", "-", "data", "/">>)
    [] kind = "process-definition" -> Uri(<<"process", "-", "definition", "/">>)
    [] OTHER -> Uri(<<kind, "/">>)
SixKinds == {"table-schema", "table-data", "record", "incident", "user", "process-definition"}
HasPrefixOf(uri, kind) == StartsWith(Chars(uri), Chars(PrefixOf(kind)))
AfterPrefix(uri, kind) == SubSeq(Chars(uri), Len(Chars(PrefixOf(kind))) + 1, Len(Chars(uri)))

(* the URI matches no template prefix, or matches one and lacks the        *)
(* parameter(s) that must follow it                                        *)
UnknownOrIncomplete(uri) ==
  \/ \A kind \in SixKinds : ~HasPrefixOf(uri, kind)
  \/ \E kind \in SixKinds \ {"record"} : HasPrefixOf(uri, kind) /\ AfterPrefix(uri, kind) = <<>>
  \/ IsRecordUri(uri) /\ ~TwoNonEmptySegments(uri)

(* C19: every resource URI (other than servicenow://examples) that matches *)
(* none of the six template prefixes, or matches one but lacks its         *)
(* trailing parameter, is rejected with InvalidRequest and a message that  *)
(* lists all six templates.                                                *)
C19_RejectionListsSixTemplates ==
  (request.kind = "resource" /\ Chars(request.text) # Chars(ExamplesUri)
     /\ UnknownOrIncomplete(request.text)) =>
    /\ reply.kind = "McpError"
    /\ reply.code = "InvalidRequest"
    /\ SixKinds \subseteq reply.lists

(* ---------------- C20 ---------------- *)
MatchingTemplates(uri) == { i \in DOMAIN resourceTemplates : TemplateMatches(i, uri) }

(* C20: the six template tests are mutually exclusive: no template prefix  *)
(* begins with another template's prefix, so no URI string can pass two    *)
(* tests; for the URI of the request at most one test passes, and the      *)
(* template the resolver chose is that one whatever the order of the tests. *)
C20_TemplatesMutuallyExclusive ==
  /\ \A i, j \in DOMAIN resourceTemplates :
       i # j => ~StartsWith(Chars(resourceTemplates[i].prefix), Chars(resourceTemplates[j].prefix))
  /\ request.kind = "resource" =>
       /\ Cardinality(MatchingTemplates(request.text)) <= 1
       /\ \A i \in MatchingTemplates(request.text) :
            resourceResolution[request.text].template = i

(* a table-schema URI was resolved: it passes the table-schema test only   *)
C20_Witness ==
  /\ request = [kind |-> "resource", text |-> Uri(<<"table", "-", "schema", "/", "incident">>)]
  /\ MatchingTemplates(request.text) = {1}
  /\ lookups = <<Lookup("queryTable", "sys_dictionary", "name")>>
  /\ reply.kind = "result"

(* ---- C21 ---- *)
RECURSIVE RowsFrom(_, _)
RowsFrom(answers, from) ==
  IF from > Len(answers) THEN 0
  ELSE answers[from].rows + RowsFrom(answers, from + 1)
(* the record fetch of a process-definition resolution has returned        *)
RecordFetched == Len(details.answers) > 0 /\ details.answers[1].ok
BothLaneLookupsThrew ==
  /\ Len(details.answers) >= 3
  /\ ~details.answers[2].ok
  /\ ~details.answers[3].ok
(* position of the first activity answer: after one or two lane answers    *)
FirstActivityAnswer ==
  IF Len(details.answers) >= 2 /\ details.answers[2].ok THEN 3 ELSE 4

C21_WitnessNoLanes ==
  RecordFetched /\ BothLaneLookupsThrew /\ stage = "idle" /\ reply.kind = "result"

(* ---- C28 ---- *)
(* the client calls of the resolution in progress, paired with how the     *)
(* finished ones ended                                                     *)
Threw(i) == i <= Len(details.answers) /\ ~details.answers[i].ok
ReturnedRows(i) == i <= Len(details.answers) /\ details.answers[i].ok
QueriedTable(i, table) == i \in 1..Len(lookups) /\ lookups[i].table = table
LaneTables == {"sys_pd_lane_definition", "sys_pd_lane"}
ActivityTables == {"sys_pd_activity_definition", "sys_pd_activity"}

ExecuteRequested == request.kind = "tool" /\ request.text = ExecuteProcessDefinition
ExecuteAnswered == ExecuteRequested /\ stage = "idle" /\ outcome[1] = Returned
NotReadyForExecution ==
  details.record.active # "true" \/ details.record.status # "published"
ReportsExecution ==
  \E i \in 1..Len(reply.wraps) : reply.wraps[i] = "Process execution initiated for"

C24_NonPositiveLimitRejected ==
  /\ (toolArgs.op = "servicenow_query_table" /\ toolArgs.limit.given /\ toolArgs.limit.n <= 0) =>
       requested = NoConfig
  /\ requested.params.sysparm_limit.given => requested.params.sysparm_limit.n > 0

(* ---- C27 ---- *)
(* C27: servicenow_incident_list forwards query as sysparm_query, fields   *)
(* as sysparm_fields, limit (default 100) as sysparm_limit, offset         *)
(* (default 0) as sysparm_offset and order_by as sysparm_orderby.          *)
C27_ListForwardsEveryArgument ==
  toolArgs.op = "servicenow_incident_list" =>
    /\ requested.method = "GET"
    /\ requested.table = "incident"
    /\ requested.params.given
    /\ requested.params.sysparm_query = toolArgs.query
    /\ requested.params.sysparm_fields = toolArgs.fields
    /\ requested.params.sysparm_limit = Given(Default(toolArgs.limit, 100))
    /\ requested.params.sysparm_offset = Given(Default(toolArgs.offset, 0))
    /\ requested.params.sysparm_orderby = toolArgs.order_by
(* the arguments other than order_by do arrive *)
C27_OthersForwarded ==
  toolArgs.op = "servicenow_incident_list" =>
    /\ requested.params.sysparm_query = toolArgs.query
    /\ requested.params.sysparm_fields = toolArgs.fields
    /\ requested.params.sysparm_limit = Given(Default(toolArgs.limit, 100))
    /\ requested.params.sysparm_offset = Given(Default(toolArgs.offset, 0))
    /\ requested.params.sysparm_orderby = Absent

(* ---- C25 ---- *)
(* a getRecord with no field selection that asks for the record the        *)
(* createRecord just before it returned                                    *)
GetsWhatWasJustCreated ==
  /\ toolArgs.op = "createRecord"
  /\ response.kind = "record"
  /\ toolArgs'.op = "getRecord"
  /\ toolArgs'.table = toolArgs.table
  /\ toolArgs'.sysId = response.sysId
  /\ toolArgs'.fields = Absent

(* C25: against a store that gives back the fields it stored, a            *)
(* createRecord(table, data) followed immediately by getRecord(table, the  *)
(* returned sys_id) without field selection returns a record that has      *)
(* every field of data with the same value, for every table and every      *)
(* data mapping of the model.                                              *)
C25_CreateThenGetReturnsData ==
  [][GetsWhatWasJustCreated =>
       /\ response'.kind = "record"
       /\ response'.sysId = response.sysId
       /\ \A f \in Fields :
            toolArgs.data[f] # Absent => response'.fields[f] = toolArgs.data[f]]_vars
C25_Witness ==
  /\ toolArgs.op = "getRecord"
  /\ toolArgs.fields = Absent
  /\ toolArgs.sysId = Len(store)
  /\ response.kind = "record"
  /\ response.fields["name"] = "a"
  /\ response.fields["state"] = "b"
  /\ store[toolArgs.sysId].table = toolArgs.table

(* ---- C29 ---- *)
(* C29: in every reachable state of a session the default Authorization    *)
(* header is absent exactly when accessToken is null, and otherwise is     *)
(* "Bearer " followed by the current accessToken.                          *)
C29_HeaderFollowsToken ==
  /\ (authHeader = <<>>) <=> (accessToken = Null)
  /\ accessToken # Null => authHeader = <<"Bearer ", accessToken>>
(* a second token is held and an authentication has failed since           *)
C29_Witness ==
  /\ accessToken = 2
  /\ authHeader = <<"Bearer ", 2>>
  /\ \E p \in Callers : IsAuthError(outcome[p])

(* ---- C22 ---- *)
MissingKeys == { k \in Keys : env[k] = Absent \/ env[k] = "" }
Named(names) == { names[i] : i \in 1..Len(names) }
NothingSentYet ==
  /\ serviceNowClient = NoClient
  /\ nTok = 0
  /\ pc[1] = "idle"
  /\ op[1] = "none"
  /\ tokReq[1] = 0
  /\ bizReq[1] = 0
  /\ request = NoRequest

(* C22: when any of the five required settings is missing or empty,        *)
(* startup fails before a client is created or a network call is made,     *)
(* and the error names every missing key and no key that is present.       *)
C22_MissingSettingsStopStartup ==
  MissingKeys # {} =>
    /\ phase \in {"constructed", "exited"}
    /\ NothingSentYet
    /\ (phase = "exited" /\ fatal # Interrupted) =>
         /\ fatal.code = 1
         /\ fatal.about = "Missing required env vars"
         /\ Named(fatal.names) = MissingKeys
         /\ Len(fatal.names) = Cardinality(MissingKeys)
C22_Witness ==
  /\ phase = "exited"
  /\ fatal.about = "Missing required env vars"
  /\ env["SERVICENOW_CLIENT_ID"] = ""
  /\ env["SERVICENOW_PASSWORD"] = Absent
  /\ env["SERVICENOW_USERNAME"] = "value"
  /\ fatal.names = <<"SERVICENOW_CLIENT_ID", "SERVICENOW_PASSWORD">>

(* ---- C23 ---- *)
(* C23: the process exits only because required configuration is missing  *)
(* at startup or because of an interrupt signal; no failed authentication *)
(* or backing-service request makes it exit.                              *)
C23_ExitOnlyForConfigOrInterrupt ==
  phase = "exited" =>
    fatal.about \in {"Missing required env vars", "SIGINT"}
(* what does hold: the only other exit is the one after a failed initial   *)
(* authentication; once the server listens, no failed authentication or    *)
(* backing-service request makes the process exit.                         *)
C23_ExitOnlyAtStartupOrInterrupt ==
  phase = "exited" =>
    \/ fatal.about = "Missing required env vars" /\ MissingKeys # {} /\ NothingSentYet
    \/ fatal = Interrupted
    \/ /\ IsAuthError(Thrown(fatal.about, 0, ""))
       /\ fatal.code = 1
       /\ request = NoRequest
       /\ op[1] = "authenticate"
       /\ accessToken = Null
(* ---- C30 ---- *)
(* C30: a tool call or resource read is dispatched only once the          *)
(* environment was validated, the shared client was created and the first  *)
(* authentication has succeeded: never while the client is null or no      *)
(* token was obtained.                                                     *)
C30_NoRequestBeforeStartupDone ==
  (request # NoRequest \/ stage # "idle" \/ phase = "listening") =>
    /\ MissingKeys = {}
    /\ serviceNowClient # NoClient
    /\ accessToken # Null
    /\ nTok >= 1
    /\ phase \in {"listening", "exited"}
C30_Witness ==
  /\ request.kind = "tool"
  /\ stage = "tool"
  /\ phase = "listening"
  /\ accessToken = 1

====
